---- MODULE Spec2Model ----
(***************************************************************************)
(* Model of rdfmap's MappingGenerator (src/src/rdfmap/generator/           *)
(* mapping_generator.py): the column -> property matching cascade, the     *)
(* generation of the mapping configuration and the alignment report.       *)
(*                                                                         *)
(* Strings are sequences of one-character strings, so that normalisation   *)
(* (lower-casing, removal of "_" and " "), substring containment and URI   *)
(* splitting are computed as the code computes them.  An Optional[str]     *)
(* that the code only ever tests for truthiness is the empty sequence when *)
(* it is None or "".  Confidence scores are hundredths (0.8 is 80).        *)
(*                                                                         *)
(* The module also models the matcher pipeline's SemanticSimilarityMatcher *)
(* (matchers/semantic_matcher.py), whose scores are counted in units of    *)
(* 1/ONE so that the word-overlap ratios are exact, and the pipeline       *)
(* factory create_default_pipeline (matchers/factory.py).                  *)
(*                                                                         *)
(* The backend's conversion endpoint (backend/app/routers/conversion.py)   *)
(* and its Celery task (backend/app/worker.py) are modelled with the       *)
(* broker queue and the result store they talk to.                         *)
(***************************************************************************)
EXTENDS Integers, Sequences, FiniteSets, TLC

VARIABLES
    ontology,          \* self.ontology: classes, properties, namespaces (read-only)
    spreadsheet,       \* self.spreadsheet: file path, columns, analyses (read-only)
    config,            \* self.config: the GeneratorConfig
    mapping,           \* self.mapping: <<>> is the empty dict, else <<the mapping>>
    alignment_report,  \* self.alignment_report: <<>> is None, else <<the report>>
    mapped_columns,    \* self._mapped_columns: a dict as a sequence of entries
    unmapped_columns,  \* self._unmapped_columns: a list of column names
    output_path,       \* self.output_path: [set, path], path <<>> being None
    files,             \* the files written so far: a sequence of [path, content]
    lastCall,          \* the last public call: [op, target_class, output_path, outcome]
    calls,             \* how many public calls were made
    repeated,          \* history: the last call succeeded and repeated the call
                       \* before it, which had succeeded with the same arguments
    succeeded,         \* history: the public operations that have succeeded on
                       \* the generator so far
    mCol,       \* matcher harness: the column name handed to the matcher
    mProps,     \* matcher harness: the property list handed to the matcher
    mResult,    \* matcher harness: what _match_column_to_property returned
    mPc,        \* matcher harness: "input" before the call, "matched" after
    sem,        \* the SemanticSimilarityMatcher object, <<>> before construction
    semCall,    \* its last match call: [column, properties, context, embedded,
                \* result], <<>> before the first call
    fArgs,      \* the arguments of create_default_pipeline and what its optional
                \* imports do
    fPipeline,  \* <<>> before the call, then <<the matcher list it built>>
    mapping_files,  \* backend: the projects whose mapping_config.yaml exists
    celery_queue,   \* backend: the task messages queued on the broker, oldest first
    celery_results, \* backend: the result store, task id -> [state, result]
    conversions,    \* backend history: the conversions run, [by, project_id, outcome]
    response,       \* backend: the last request with its answer, <<>> before the first
    requests        \* backend: how many requests were answered

gvars ==
    <<ontology, spreadsheet, config, mapping, alignment_report, mapped_columns,
      unmapped_columns, output_path, files, lastCall, calls, repeated, succeeded>>

mvars == <<mCol, mProps, mResult, mPc>>

svars == <<sem, semCall>>

fvars == <<fArgs, fPipeline>>

bvars == <<mapping_files, celery_queue, celery_results, conversions, response, requests>>

vars == <<gvars, mvars, svars, fvars, bvars>>

----------------------------------------------------------------------------
(* Bounds *)

MaxProps == 2
MaxCalls == 2
MaxRequests == 3
MaxTasks == 2

----------------------------------------------------------------------------
(* Strings *)

\* str.lower() on one character, for the characters of the model's alphabet
LowerChar(c) ==
    CASE c = "A" -> "a"
      [] c = "B" -> "b"
      [] c = "D" -> "d"
      [] c = "F" -> "f"
      [] c = "N" -> "n"
      [] c = "O" -> "o"
      [] c = "P" -> "p"
      [] c = "Q" -> "q"
      [] OTHER -> c

\* s.lower()
Lower(s) == [i \in 1..Len(s) |-> LowerChar(s[i])]

\* s.replace(ch, "")
Remove(s, ch) == SelectSeq(s, LAMBDA c : c # ch)

\* s.replace(ch, by), ch and by one character each
ReplaceChar(s, ch, by) == [i \in 1..Len(s) |-> IF s[i] = ch THEN by ELSE s[i]]

\* a faulty variant: spaces are kept
CleanLabel_keep_spaces(s) == Remove(Lower(s), "_")

\* label.lower().replace("_", "").replace(" ", "")
CleanLabel(s) == Remove(Remove(Lower(s), "_"), " ")

\* local_name.lower().replace("_", "")
CleanLocal(s) == Remove(Lower(s), "_")

\* a faulty variant: the empty string is contained in nothing
Contains_nonempty(a, b) ==
    /\ a # <<>>
    /\ \E i \in 0..(Len(b) - Len(a)) : \A j \in 1..Len(a) : b[i + j] = a[j]

\* Python's `a in b` on strings: a is a contiguous substring of b
Contains(a, b) ==
    \E i \in 0..(Len(b) - Len(a)) : \A j \in 1..Len(a) : b[i + j] = a[j]

\* s.split(sep)[-1]: what follows the last occurrence of sep (all of s if none)
AfterLast(s, sep) ==
    LET idx == {i \in 1..Len(s) : s[i] = sep}
        last == IF idx = {} THEN 0 ELSE CHOOSE i \in idx : \A j \in idx : j <= i
    IN  SubSeq(s, last + 1, Len(s))

\* str(prop.uri).split("#")[-1].split("/")[-1]
LocalName(uri) == AfterLast(AfterLast(uri, "#"), "/")

----------------------------------------------------------------------------
(* MatchType tags and their confidence *)

EXACT_PREF_LABEL == "exact-pref-label"
EXACT_LABEL == "exact-label"
EXACT_ALT_LABEL == "exact-alt-label"
EXACT_HIDDEN_LABEL == "exact-hidden-label"
EXACT_LOCAL_NAME == "exact-local-name"
PARTIAL == "partial"
FUZZY == "fuzzy"

\* the cascade's order of tiers (Priority 1 .. Priority 7)
TierOrder ==
    <<EXACT_PREF_LABEL, EXACT_LABEL, EXACT_ALT_LABEL, EXACT_HIDDEN_LABEL,
      EXACT_LOCAL_NAME, PARTIAL, FUZZY>>

\* models/alignment.py calculate_confidence_score, in hundredths
calculate_confidence_score(match_type) ==
    CASE match_type = EXACT_PREF_LABEL -> 100
      [] match_type = EXACT_LABEL -> 95
      [] match_type = EXACT_ALT_LABEL -> 90
      [] match_type = EXACT_HIDDEN_LABEL -> 85
      [] match_type = EXACT_LOCAL_NAME -> 80
      [] match_type = PARTIAL -> 60
      [] match_type = FUZZY -> 40
      [] OTHER -> 0

----------------------------------------------------------------------------
(* _match_column_to_property *)

\* all_labels of Priority 6: pref_label, label (when truthy), then alt_labels
AllLabels(prop) ==
    (IF prop.pref_label # <<>> THEN <<prop.pref_label>> ELSE <<>>)
    \o (IF prop.label # <<>> THEN <<prop.label>> ELSE <<>>)
    \o prop.alt_labels

\* the labels of one property that make the given tier fire for the column,
\* in the order the tier's loop visits them
TierHits(col_lower, prop, tier) ==
    CASE tier = EXACT_PREF_LABEL ->
            IF prop.pref_label # <<>> /\ col_lower = CleanLabel(prop.pref_label)
            THEN <<prop.pref_label>> ELSE <<>>
      [] tier = EXACT_LABEL ->
            IF prop.label # <<>> /\ col_lower = CleanLabel(prop.label)
            THEN <<prop.label>> ELSE <<>>
      [] tier = EXACT_ALT_LABEL ->
            SelectSeq(prop.alt_labels, LAMBDA l : col_lower = CleanLabel(l))
      [] tier = EXACT_HIDDEN_LABEL ->
            SelectSeq(prop.hidden_labels, LAMBDA l : col_lower = CleanLabel(l))
      [] tier = EXACT_LOCAL_NAME ->
            IF col_lower = CleanLocal(LocalName(prop.uri))
            THEN <<LocalName(prop.uri)>> ELSE <<>>
      [] tier = PARTIAL ->
            SelectSeq(AllLabels(prop),
                      LAMBDA l : \/ Contains(col_lower, CleanLabel(l))
                                 \/ Contains(CleanLabel(l), col_lower))
      [] tier = FUZZY ->
            IF \/ Contains(col_lower, CleanLocal(LocalName(prop.uri)))
               \/ Contains(CleanLocal(LocalName(prop.uri)), col_lower)
            THEN <<LocalName(prop.uri)>> ELSE <<>>

\* the (property, match_type, matched_via) tuples one tier's loop would return,
\* in the order of the property list: one per property that fires
TierCandidates(col_lower, properties, tier) ==
    LET one(prop) ==
            IF TierHits(col_lower, prop, tier) = <<>> THEN <<>>
            ELSE <<[prop |-> prop, match_type |-> tier,
                    matched_via |-> Head(TierHits(col_lower, prop, tier))]>>
        RECURSIVE walk(_)
        walk(i) == IF i > Len(properties) THEN <<>>
                   ELSE one(properties[i]) \o walk(i + 1)
    IN  walk(1)

\* every candidate, tier by tier in the order the tiers are tried
Candidates(col_name, properties, tiers) ==
    LET col_lower == CleanLabel(col_name)
        RECURSIVE walk(_)
        walk(t) == IF t > Len(tiers) THEN <<>>
                   ELSE TierCandidates(col_lower, properties, tiers[t]) \o walk(t + 1)
    IN  walk(1)

\* a faulty variant: the fuzzy tier is tried before the partial tier
match_column_to_property_fuzzy_first(col_name, properties) ==
    LET c == Candidates(col_name, properties,
                        <<EXACT_PREF_LABEL, EXACT_LABEL, EXACT_ALT_LABEL,
                          EXACT_HIDDEN_LABEL, EXACT_LOCAL_NAME, FUZZY, PARTIAL>>)
    IN  IF c = <<>> THEN <<>> ELSE <<Head(c)>>

\* a faulty variant: no early return, every candidate is handed back
match_column_to_property_all(col_name, properties) ==
    Candidates(col_name, properties, TierOrder)

\* a faulty variant: the local-name tiers are tried before the label tiers
match_column_to_property_local_first(col_name, properties) ==
    LET c == Candidates(col_name, properties,
                        <<EXACT_LOCAL_NAME, FUZZY, EXACT_PREF_LABEL, EXACT_LABEL,
                          EXACT_ALT_LABEL, EXACT_HIDDEN_LABEL, PARTIAL>>)
    IN  IF c = <<>> THEN <<>> ELSE <<Head(c)>>

\* _match_column_to_property: the first tier that fires returns its first
\* property.  None is <<>>, a match is a one-element sequence.
match_column_to_property(col_name, properties) ==
    LET c == Candidates(col_name, properties, TierOrder)
    IN  IF c = <<>> THEN <<>> ELSE <<Head(c)>>

----------------------------------------------------------------------------
(* Python values: dicts, optional values, paths *)

\* a dict is a sequence of [key, value] entries in insertion order
DictHas(d, k) == \E i \in 1..Len(d) : d[i].key = k

DictGet(d, k) == d[CHOOSE i \in 1..Len(d) : d[i].key = k].value

DictKeys(d) == [i \in 1..Len(d) |-> d[i].key]

\* d[k] = v: an existing key keeps its position, a new key goes last
DictSet(d, k, v) ==
    IF DictHas(d, k)
    THEN [i \in 1..Len(d) |-> IF d[i].key = k THEN [key |-> k, value |-> v] ELSE d[i]]
    ELSE Append(d, [key |-> k, value |-> v])

StartsWith(s, prefix) ==
    Len(prefix) <= Len(s) /\ SubSeq(s, 1, Len(prefix)) = prefix

EndsWith(s, suffix) ==
    Len(suffix) <= Len(s) /\ SubSeq(s, Len(s) - Len(suffix) + 1, Len(s)) = suffix

\* sep.join(parts)
RECURSIVE Join(_, _)
Join(parts, sep) ==
    IF parts = <<>> THEN <<>>
    ELSE IF Len(parts) = 1 THEN parts[1]
    ELSE parts[1] \o sep \o Join(Tail(parts), sep)

\* A path is [abs, parts]; the paths handed to the generator are absolute and
\* resolved.  str(path):
PathStr(path) ==
    IF path.abs THEN <<"/">> \o Join(path.parts, <<"/">>)
    ELSE IF path.parts = <<>> THEN <<".">> ELSE Join(path.parts, <<"/">>)

\* Path(p).parent
PathParent(path) ==
    [abs |-> path.abs,
     parts |-> IF path.parts = <<>> THEN <<>>
               ELSE SubSeq(path.parts, 1, Len(path.parts) - 1)]

\* Path(p).stem: the last component without its last suffix
PathStem(path) ==
    LET name == path.parts[Len(path.parts)]
        dots == {i \in 2..Len(name) : name[i] = "."}
        last == IF dots = {} THEN 0 ELSE CHOOSE i \in dots : \A j \in dots : j <= i
    IN  IF last = 0 \/ last = Len(name) THEN name ELSE SubSeq(name, 1, last - 1)

\* os.path.relpath(path, start) on two absolute, resolved paths
RelPath(path, start) ==
    LET p == path.parts
        q == start.parts
        same == {n \in 0..Len(p) : n <= Len(q) /\ \A i \in 1..n : p[i] = q[i]}
        common == CHOOSE n \in same : \A m \in same : m <= n
        ups == [i \in 1..(Len(q) - common) |-> <<".", ".">>]
    IN  [abs |-> FALSE, parts |-> ups \o SubSeq(p, common + 1, Len(p))]

----------------------------------------------------------------------------
(* The ontology and spreadsheet collaborators *)

XSD_NS == <<"h", "t", "t", "p", ":", "/", "/", "w", "w", "w", ".", "w", "3", ".", "o", "r", "g", "/", "2", "0", "0", "1", "/", "X", "M", "L", "S", "c", "h", "e", "m", "a", "#">>

\* OntologyAnalyzer.get_namespaces: prefix -> namespace, a fresh dict
get_namespaces == ontology.namespaces

\* OntologyAnalyzer.get_class_by_label: the first class with that label
get_class_by_label(label) ==
    LET hits == SelectSeq(ontology.classes, LAMBDA c : c.label # <<>> /\ c.label = label)
    IN  IF hits = <<>> THEN <<>> ELSE <<Head(hits)>>

\* OntologyAnalyzer.suggest_class_for_name: the classes suggested for a name
suggest_class_for_name(name) ==
    IF name = ontology.suggested_for THEN ontology.suggestions ELSE <<>>

\* OntologyAnalyzer.get_datatype_properties
get_datatype_properties(class_uri) ==
    SelectSeq(ontology.properties,
              LAMBDA q : q.kind = "datatype" /\ q.domain = class_uri)

\* OntologyAnalyzer.get_object_properties
get_object_properties(class_uri) ==
    SelectSeq(ontology.properties,
              LAMBDA q : q.kind = "object" /\ q.domain = class_uri)

\* SpreadsheetAnalyzer.get_column_names
get_column_names == spreadsheet.columns

\* SpreadsheetAnalyzer.get_analysis
get_analysis(col_name) == DictGet(spreadsheet.analyses, col_name)

\* SpreadsheetAnalyzer.suggest_iri_template_columns
suggest_iri_template_columns == spreadsheet.id_cols

----------------------------------------------------------------------------
(* MappingGenerator: class resolution *)

\* a faulty variant: the URI is tried before the label
resolve_class_uri_first(identifier) ==
    LET byUri == SelectSeq(ontology.classes,
                           LAMBDA c : \/ c.uri = identifier
                                      \/ EndsWith(c.uri, <<"#">> \o identifier)
                                      \/ EndsWith(c.uri, <<"/">> \o identifier))
    IN  IF byUri # <<>> THEN <<Head(byUri)>> ELSE get_class_by_label(identifier)

\* _resolve_class: by label first, then by URI, '#identifier' or '/identifier'
resolve_class(identifier) ==
    LET byLabel == get_class_by_label(identifier)
        byUri == SelectSeq(ontology.classes,
                           LAMBDA c : \/ c.uri = identifier
                                      \/ EndsWith(c.uri, <<"#">> \o identifier)
                                      \/ EndsWith(c.uri, <<"/">> \o identifier))
    IN  IF byLabel # <<>> THEN byLabel
        ELSE IF byUri # <<>> THEN <<Head(byUri)>> ELSE <<>>

\* _auto_detect_class: first suggestion for the file stem, else the first class
auto_detect_class ==
    LET suggestions == suggest_class_for_name(PathStem(spreadsheet.file_path))
    IN  IF suggestions # <<>> THEN <<suggestions[1]>>
        ELSE IF ontology.classes # <<>> THEN <<ontology.classes[1]>> ELSE <<>>

\* lines 87-94 of generate: the class for a target_class argument (<<>> is
\* None or ""), <<>> when the call raises ValueError
TargetClass(target_class) ==
    IF target_class # <<>> THEN resolve_class(target_class) ELSE auto_detect_class

----------------------------------------------------------------------------
(* MappingGenerator: the parts of the mapping *)

\* _generate_namespaces
generate_namespaces ==
    IF DictHas(get_namespaces, <<"x", "s", "d">>) THEN get_namespaces
    ELSE DictSet(get_namespaces, <<"x", "s", "d">>, XSD_NS)

\* _generate_defaults
generate_defaults == [base_iri |-> config.base_iri]

\* _generate_options
generate_options == [on_error |-> "report", skip_empty_values |-> TRUE]

\* lines 405-410: the CURIE under the first of the matching namespaces
CurieWith(uri, ns) ==
    IF ns # <<>>
    THEN ns[1].key \o <<":">> \o SubSeq(uri, Len(ns[1].value) + 1, Len(uri))
    ELSE uri

\* _format_uri: the CURIE under the first namespace that prefixes the URI
format_uri(uri) ==
    CurieWith(uri, SelectSeq(get_namespaces, LAMBDA e : StartsWith(uri, e.value)))

\* lines 216-217: the template for the identifier columns, <<>> without any
IriTemplateFor(id_cols, class_name) ==
    IF id_cols = <<>> THEN <<>>
    ELSE <<Join([i \in 1..Len(id_cols) |->
                    class_name \o <<":", "{">> \o id_cols[i] \o <<"}">>],
                <<"_">>)>>

\* _generate_iri_template; <<>> when get_column_names()[0] raises IndexError
generate_iri_template(target_class) ==
    IriTemplateFor(
        IF suggest_iri_template_columns # <<>> THEN suggest_iri_template_columns
        ELSE IF get_column_names # <<>> THEN <<get_column_names[1]>>
        ELSE <<>>,
        ReplaceChar(Lower(IF target_class.label # <<>> THEN target_class.label
                          ELSE config.default_class_prefix),
                    " ", "_"))

\* a faulty variant: a column without a match is dropped, not tracked
ColumnRecord_drop_unmatched(acc, col_name, col_analysis, match_result) ==
    IF match_result # <<>>
    THEN [mappings |-> DictSet(acc.mappings, col_name,
                               [as |-> format_uri(match_result[1].prop.uri),
                                datatype |-> col_analysis.suggested_datatype,
                                required |-> col_analysis.is_required,
                                comment |-> <<>>]),
          mapped |-> DictSet(acc.mapped, col_name,
                             [prop |-> match_result[1].prop,
                              match_type |-> match_result[1].match_type,
                              confidence |->
                                  calculate_confidence_score(match_result[1].match_type)]),
          unmapped |-> acc.unmapped]
    ELSE acc

\* lines 233-259: what one column leaves in acc = [mappings, mapped, unmapped],
\* the local dict and the two tracking fields, given its match result
ColumnRecord(acc, col_name, col_analysis, match_result) ==
    IF match_result # <<>>
    THEN [mappings |->
              DictSet(acc.mappings, col_name,
                      [as |-> format_uri(match_result[1].prop.uri),
                       datatype |-> col_analysis.suggested_datatype,
                       required |-> col_analysis.is_required,
                       comment |-> IF config.include_comments
                                   THEN match_result[1].prop.comment ELSE <<>>]),
          mapped |->
              DictSet(acc.mapped, col_name,
                      [prop |-> match_result[1].prop,
                       match_type |-> match_result[1].match_type,
                       confidence |->
                           calculate_confidence_score(match_result[1].match_type)]),
          unmapped |-> acc.unmapped]
    ELSE [mappings |-> acc.mappings,
          mapped |-> acc.mapped,
          unmapped |-> Append(acc.unmapped, col_name)]

\* lines 227-231: the body of the loop of _generate_column_mappings
ColumnStep(acc, col_name, properties) ==
    ColumnRecord(acc, col_name, get_analysis(col_name),
                 match_column_to_property(col_name, properties))

\* a faulty variant: a column that is already tracked as mapped is skipped
generate_column_mappings_skip_tracked(target_class, mapped, unmapped) ==
    LET RECURSIVE walk(_, _)
        walk(i, acc) ==
            IF i > Len(get_column_names) THEN acc
            ELSE IF DictHas(acc.mapped, get_column_names[i]) THEN walk(i + 1, acc)
            ELSE walk(i + 1, ColumnStep(acc, get_column_names[i],
                                        get_datatype_properties(target_class.uri)))
    IN  walk(1, [mappings |-> <<>>, mapped |-> mapped, unmapped |-> unmapped])

\* _generate_column_mappings: the returned dict and the tracking it leaves
generate_column_mappings(target_class, mapped, unmapped) ==
    LET RECURSIVE walk(_, _)
        walk(i, acc) ==
            IF i > Len(get_column_names) THEN acc
            ELSE walk(i + 1, ColumnStep(acc, get_column_names[i],
                                        get_datatype_properties(target_class.uri)))
    IN  walk(1, [mappings |-> <<>>, mapped |-> mapped, unmapped |-> unmapped])

\* lines 393-395: the pair a matched column adds to `potential`
PotentialFor(col_name, match_result) ==
    IF match_result # <<>>
    THEN <<[column |-> col_name, prop |-> match_result[1].prop]>>
    ELSE <<>>

\* _find_columns_for_object: the (column, property) pairs for a range class
find_columns_for_object(range_class) ==
    LET RECURSIVE walk(_)
        walk(i) ==
            IF i > Len(get_column_names) THEN <<>>
            ELSE PotentialFor(get_column_names[i],
                              match_column_to_property(
                                  get_column_names[i],
                                  get_datatype_properties(range_class.uri)))
                 \o walk(i + 1)
    IN  walk(1)

\* self.ontology.classes[uri] for a known class URI
ClassByUri(uri) ==
    (SelectSeq(ontology.classes, LAMBDA c : c.uri = uri))[1]

KnownClass(uri) == \E i \in 1..Len(ontology.classes) : ontology.classes[i].uri = uri

\* lines 364-378: the entry of one object property with matching columns
ObjectRecord(acc, prop, range_class, potential_cols) ==
    IF potential_cols = <<>> THEN acc
    ELSE DictSet(acc,
                 IF prop.label # <<>> THEN prop.label ELSE LocalName(prop.uri),
                 [predicate |-> format_uri(prop.uri),
                  class |-> format_uri(range_class.uri),
                  iri_template |-> generate_iri_template(range_class)[1],
                  properties |->
                      [i \in 1..Len(potential_cols) |->
                          [column |-> potential_cols[i].column,
                           as |-> format_uri(potential_cols[i].prop.uri)]]])

\* lines 359-362: the range class and its columns
ObjectFor(acc, prop, range_class) ==
    ObjectRecord(acc, prop, range_class, find_columns_for_object(range_class))

\* lines 355-378: the body of the loop of _generate_object_mappings
ObjectStep(acc, prop) ==
    IF prop.range_type = <<>> \/ ~KnownClass(prop.range_type) THEN acc
    ELSE ObjectFor(acc, prop, ClassByUri(prop.range_type))

\* a faulty variant: the relationships are detected whatever the configuration
generate_object_mappings_always(target_class) ==
    LET RECURSIVE walk(_, _)
        walk(i, acc) ==
            IF i > Len(get_object_properties(target_class.uri)) THEN acc
            ELSE walk(i + 1, ObjectStep(acc, get_object_properties(target_class.uri)[i]))
    IN  walk(1, <<>>)

\* _generate_object_mappings: one entry per object property whose range is a
\* known class with matching columns, keyed by the property's label or local name
generate_object_mappings(target_class) ==
    LET RECURSIVE walk(_, _)
        walk(i, acc) ==
            IF i > Len(get_object_properties(target_class.uri)) THEN acc
            ELSE walk(i + 1, ObjectStep(acc, get_object_properties(target_class.uri)[i]))
    IN  IF ~config.auto_detect_relationships THEN <<>> ELSE walk(1, <<>>)

\* lines 166-176: the source path of the sheet, relative to the config's
\* directory when an output path is given
SheetSource(out) ==
    IF out # <<>>
    THEN PathStr(RelPath(spreadsheet.file_path, PathParent(out[1])))
    ELSE PathStr(spreadsheet.file_path)

\* lines 97-104 with _generate_sheet_mapping: the mapping of a successful call
GenerateOk(cls, iri_template, out, cm) ==
    [outcome |-> "ok",
     mapping |->
         <<[namespaces |-> generate_namespaces,
            defaults |-> generate_defaults,
            sheets |-> <<[name |-> PathStem(spreadsheet.file_path),
                          source |-> SheetSource(out),
                          row_resource |-> [class |-> format_uri(cls.uri),
                                            iri_template |-> iri_template],
                          columns |-> cm.mappings,
                          objects |-> generate_object_mappings(cls)]>>,
            options |-> generate_options]>>,
     mapped |-> cm.mapped,
     unmapped |-> cm.unmapped]

\* _generate_sheet_mapping from the IRI template on: IndexError when there is
\* no column to build the template from
GenerateSheet(cls, iri_template, out, mapping0, mapped0, unmapped0) ==
    IF iri_template = <<>>
    THEN [outcome |-> "IndexError", mapping |-> mapping0,
          mapped |-> mapped0, unmapped |-> unmapped0]
    ELSE GenerateOk(cls, iri_template[1], out,
                    generate_column_mappings(cls, mapped0, unmapped0))

\* a faulty variant: a failed resolution leaves an empty generator behind
GenerateFor_clears(cls, out, mapping0, mapped0, unmapped0) ==
    IF cls = <<>>
    THEN [outcome |-> "ValueError", mapping |-> <<>>,
          mapped |-> <<>>, unmapped |-> <<>>]
    ELSE GenerateSheet(cls[1], generate_iri_template(cls[1]), out,
                       mapping0, mapped0, unmapped0)

\* lines 87-94 of generate: ValueError when no class is found
GenerateFor(cls, out, mapping0, mapped0, unmapped0) ==
    IF cls = <<>>
    THEN [outcome |-> "ValueError", mapping |-> mapping0,
          mapped |-> mapped0, unmapped |-> unmapped0]
    ELSE GenerateSheet(cls[1], generate_iri_template(cls[1]), out,
                       mapping0, mapped0, unmapped0)

\* generate: what the call leaves behind.  outcome is "ok", "ValueError" (no
\* class) or "IndexError" (no column for the IRI template); mapping, mapped
\* and unmapped are the fields after the call, out being Path(output_path) or
\* <<>> for None.
generate(target_class, out, mapping0, mapped0, unmapped0) ==
    GenerateFor(TargetClass(target_class), out, mapping0, mapped0, unmapped0)

----------------------------------------------------------------------------
(* MappingGenerator: the alignment report *)

\* models/alignment.py get_confidence_level, on hundredths
get_confidence_level(confidence) ==
    IF confidence >= 80 THEN "high"
    ELSE IF confidence >= 50 THEN "medium"
    ELSE IF confidence >= 30 THEN "low"
    ELSE "very_low"

\* values[:5]
FirstFive(values) == SubSeq(values, 1, IF Len(values) < 5 THEN Len(values) ELSE 5)

\* a faulty variant: every weak match is answered with an altLabel suggestion
generate_skos_suggestion_alt(col_name, prop, match_type) ==
    IF match_type \in {PARTIAL, FUZZY, EXACT_LOCAL_NAME}
    THEN <<[property_uri |-> prop.uri,
            property_label |-> IF prop.label # <<>> THEN prop.label
                               ELSE IF prop.pref_label # <<>> THEN prop.pref_label
                               ELSE LocalName(prop.uri),
            suggested_label_type |-> "skos:altLabel",
            suggested_label_value |-> col_name,
            turtle_snippet |-> format_uri(prop.uri) \o <<" ", "skos:altLabel", " ", "\"">>
                               \o col_name \o <<"\"", " ", ".">>,
            justification |-> <<"Column name '">> \o col_name
                              \o <<"' matches property name but lacks proper SKOS labels">>]>>
    ELSE <<>>

\* _generate_skos_suggestion: <<>> is None
generate_skos_suggestion(col_name, prop, match_type) ==
    LET label_type == IF match_type \in {PARTIAL, FUZZY} THEN "skos:hiddenLabel"
                      ELSE "skos:altLabel"
        justification ==
            IF match_type \in {PARTIAL, FUZZY}
            THEN <<"Column name '">> \o col_name
                 \o <<"' is a variation that could benefit from a hiddenLabel for better automatic matching">>
            ELSE <<"Column name '">> \o col_name
                 \o <<"' matches property name but lacks proper SKOS labels">>
        local_name == LocalName(prop.uri)
        property_label == IF prop.label # <<>> THEN prop.label
                          ELSE IF prop.pref_label # <<>> THEN prop.pref_label
                          ELSE local_name
        prop_prefix == format_uri(prop.uri)
    IN  IF match_type \in {PARTIAL, FUZZY, EXACT_LOCAL_NAME}
        THEN <<[property_uri |-> prop.uri,
                property_label |-> property_label,
                suggested_label_type |-> label_type,
                suggested_label_value |-> col_name,
                turtle_snippet |-> prop_prefix \o <<" ", label_type, " ", "\"">>
                                   \o col_name \o <<"\"", " ", ".">>,
                justification |-> justification]>>
        ELSE <<>>

\* a faulty variant: every match counts as weak
IsWeak_all(confidence) == confidence <= 100

\* a faulty variant: a confidence of exactly 0.8 counts as weak
IsWeak_inclusive(confidence) == confidence <= 80

\* the test of line 480, on hundredths
IsWeak(confidence) == confidence < 80

\* lines 457-468: the details of the unmapped columns
UnmappedDetails(unmapped) ==
    [i \in 1..Len(unmapped) |->
        [column_name |-> unmapped[i],
         sample_values |-> FirstFive(get_analysis(unmapped[i]).sample_values),
         inferred_datatype |-> get_analysis(unmapped[i]).suggested_datatype,
         reason |-> "No matching property found in ontology"]]

\* lines 475-501: the weak matches, in the order of _mapped_columns
WeakMatches(mapped) ==
    LET one(e) ==
            LET suggestion == generate_skos_suggestion(e.key, e.value.prop,
                                                        e.value.match_type)
            IN  [column_name |-> e.key,
                 matched_property |-> e.value.prop.uri,
                 match_type |-> e.value.match_type,
                 confidence_score |-> e.value.confidence,
                 confidence_level |-> get_confidence_level(e.value.confidence),
                 matched_via |-> IF e.value.prop.label # <<>> THEN e.value.prop.label
                                 ELSE AfterLast(e.value.prop.uri, "#"),
                 sample_values |-> FirstFive(get_analysis(e.key).sample_values),
                 suggestions |-> suggestion]
        weak == SelectSeq(mapped, LAMBDA e : IsWeak(e.value.confidence))
    IN  [i \in 1..Len(weak) |-> one(weak[i])]

\* a faulty variant: the suggestions are collected last first
RECURSIVE Suggestions_reversed(_)
Suggestions_reversed(weak_matches) ==
    IF weak_matches = <<>> THEN <<>>
    ELSE Suggestions_reversed(Tail(weak_matches)) \o Head(weak_matches).suggestions

\* lines 500-501: the suggestions of the weak matches, in order
RECURSIVE Suggestions(_)
Suggestions(weak_matches) ==
    IF weak_matches = <<>> THEN <<>>
    ELSE Head(weak_matches).suggestions \o Suggestions(Tail(weak_matches))

\* sum(1 for c in confidence_scores if lo <= c < hi)
CountIn(mapped, lo, hi) ==
    Len(SelectSeq(mapped, LAMBDA e : lo <= e.value.confidence /\ e.value.confidence < hi))

\* a faulty variant: the high bucket starts above 0.8
HighConfidence_strict(mapped) == CountIn(mapped, 81, 101)

\* lines 508-511: the four buckets (scores never exceed 100)
HighConfidence(mapped) == CountIn(mapped, 80, 101)

MediumConfidence(mapped) == CountIn(mapped, 50, 80)

LowConfidence(mapped) == CountIn(mapped, 30, 50)

VeryLowConfidence(mapped) == CountIn(mapped, 0, 30)

RECURSIVE SumConfidence(_)
SumConfidence(mapped) ==
    IF mapped = <<>> THEN 0
    ELSE Head(mapped).value.confidence + SumConfidence(Tail(mapped))

\* line 514: mapped / total as a fraction, 0.0 being 0/1
SuccessRate(mapped_count, unmapped_count, total_columns) ==
    IF total_columns > 0 THEN [num |-> mapped_count, den |-> total_columns]
    ELSE [num |-> 0, den |-> 1]

\* lines 503-536: the report for the weak matches found
ReportWith(target_class, mapped, unmapped, weak_matches) ==
    [ontology_file |-> ontology.file,
     spreadsheet_file |-> PathStr(spreadsheet.file_path),
     target_class |-> IF target_class.label # <<>> THEN target_class.label
                      ELSE target_class.uri,
     statistics |->
         [total_columns |-> Len(get_column_names),
          mapped_columns |-> Len(mapped),
          unmapped_columns |-> Len(unmapped),
          high_confidence_matches |-> HighConfidence(mapped),
          medium_confidence_matches |-> MediumConfidence(mapped),
          low_confidence_matches |-> LowConfidence(mapped),
          very_low_confidence_matches |-> VeryLowConfidence(mapped),
          mapping_success_rate |->
              SuccessRate(Len(mapped), Len(unmapped), Len(get_column_names)),
          average_confidence |->
              IF mapped # <<>> THEN [num |-> SumConfidence(mapped), den |-> Len(mapped)]
              ELSE [num |-> 0, den |-> 1]],
     unmapped_columns |-> UnmappedDetails(unmapped),
     weak_matches |-> weak_matches,
     skos_enrichment_suggestions |-> Suggestions(weak_matches)]

\* _build_alignment_report
build_alignment_report(target_class, mapped, unmapped) ==
    ReportWith(target_class, mapped, unmapped, WeakMatches(mapped))

----------------------------------------------------------------------------
(* SemanticSimilarityMatcher: scores *)

\* 1.0 on the scale of the semantic scores; a multiple of 100 and, times 0.7,
\* of every word count up to 7, so that every score of the model is exact
ONE == 4200

\* n hundredths: Hundredths(60) is 0.6
Hundredths(n) == (n * ONE) \div 100

\* d.get(k, default)
DictGetOr(d, k, default) == IF DictHas(d, k) THEN DictGet(d, k) ELSE default

\* min(1.0, x)
Saturate(x) == IF x > ONE THEN ONE ELSE x

\* s.replace(old, new), old not empty
RECURSIVE ReplaceAll(_, _, _)
ReplaceAll(s, old, new) ==
    IF Len(s) < Len(old) THEN s
    ELSE IF SubSeq(s, 1, Len(old)) = old
    THEN new \o ReplaceAll(SubSeq(s, Len(old) + 1, Len(s)), old, new)
    ELSE <<Head(s)>> \o ReplaceAll(Tail(s), old, new)

\* set(s.split()): the maximal runs of s without a blank
Words(s) ==
    {SubSeq(s, i, j) : <<i, j>> \in
        {w \in (1..Len(s)) \X (1..Len(s)) :
            /\ w[1] <= w[2]
            /\ \A k \in w[1]..w[2] : s[k] # " "
            /\ w[1] = 1 \/ s[w[1] - 1] = " "
            /\ w[2] = Len(s) \/ s[w[2] + 1] = " "}}

\* x.lower().replace('_', ' ').replace('-', ' ')
SpacedLower(s) == ReplaceChar(ReplaceChar(Lower(s), "_", " "), "-", " ")

\* lines 131-144: the abbreviations, in the order of the dict
expansions ==
    <<
      [abbrev |-> <<"f", "n", "a", "m", "e">>,
       full |-> <<"f", "i", "r", "s", "t", " ", "n", "a", "m", "e">>],
      [abbrev |-> <<"l", "n", "a", "m", "e">>,
       full |-> <<"l", "a", "s", "t", " ", "n", "a", "m", "e">>],
      [abbrev |-> <<"m", "n", "a", "m", "e">>,
       full |-> <<"m", "i", "d", "d", "l", "e", " ", "n", "a", "m", "e">>],
      [abbrev |-> <<"m", "i", "d", "d", "l", "e", " ", "i", "n", "i", "t", "i", "a", "l">>,
       full |-> <<"m", "i", "d", "d", "l", "e", " ", "n", "a", "m", "e">>],
      [abbrev |-> <<"d", "o", "b">>,
       full |-> <<"b", "i", "r", "t", "h", " ", "d", "a", "t", "e">>],
      [abbrev |-> <<"b", "i", "r", "t", "h", " ", "c", "i", "t", "y">>,
       full |-> <<"b", "i", "r", "t", "h", " ", "p", "l", "a", "c", "e">>],
      [abbrev |-> <<"e", "m", "a", "i", "l", " ", "a", "d", "d", "r", "e", "s", "s">>,
       full |-> <<"e", "m", "a", "i", "l">>],
      [abbrev |-> <<"p", "h", "o", "n", "e">>,
       full |-> <<"p", "h", "o", "n", "e", " ", "n", "u", "m", "b", "e", "r">>],
      [abbrev |-> <<"p", "o", "s", "t", "a", "l", " ", "c", "o", "d", "e">>,
       full |-> <<"z", "i", "p", " ", "c", "o", "d", "e">>],
      [abbrev |-> <<"z", "i", "p", "c", "o", "d", "e">>,
       full |-> <<"z", "i", "p", " ", "c", "o", "d", "e">>],
      [abbrev |-> <<"c", "i", "t", "y", " ", "n", "a", "m", "e">>,
       full |-> <<"c", "i", "t", "y">>],
      [abbrev |-> <<"a", "d", "d", "r", "e", "s", "s">>,
       full |-> <<"s", "t", "r", "e", "e", "t", " ", "a", "d", "d", "r", "e", "s", "s">>]
    >>

\* lines 146-150: the first abbreviation found in col_name is expanded
RECURSIVE ExpandFrom(_, _)
ExpandFrom(col_name, i) ==
    IF i > Len(expansions) THEN col_name
    ELSE IF Contains(expansions[i].abbrev, col_name)
    THEN ReplaceAll(col_name, expansions[i].abbrev, expansions[i].full)
    ELSE ExpandFrom(col_name, i + 1)

\* OntologyProperty.get_all_labels: prefLabel, rdfs:label, alt and hidden labels
get_all_labels(prop) ==
    (IF prop.pref_label # <<>> THEN <<prop.pref_label>> ELSE <<>>)
    \o (IF prop.label # <<>> THEN <<prop.label>> ELSE <<>>)
    \o prop.alt_labels \o prop.hidden_labels

\* lines 156-166: the text of a property
PropText(prop) ==
    SpacedLower(Join(get_all_labels(prop)
                     \o (IF prop.comment # <<>> THEN <<prop.comment>> ELSE <<>>)
                     \o <<LocalName(prop.uri)>>,
                     <<" ">>))

\* lines 179-186: the word overlap of two word sets, times 0.7
OverlapScore(col_words, prop_words) ==
    IF col_words # {} /\ prop_words # {} /\ Cardinality(col_words \cup prop_words) > 0
    THEN (Cardinality(col_words \cap prop_words) * 7 * ONE)
             \div (10 * Cardinality(col_words \cup prop_words))
    ELSE 0

\* lines 169-186: the score of one property
LexicalScore(col_name, expanded_col, prop, prop_text) ==
    IF expanded_col = prop_text \/ col_name = prop_text THEN ONE
    ELSE IF \/ Contains(expanded_col, prop_text)
            \/ \E i \in 1..Len(get_all_labels(prop)) :
                  Contains(Lower(get_all_labels(prop)[i]), col_name)
    THEN Hundredths(80)
    ELSE OverlapScore(Words(expanded_col), Words(prop_text))

\* the loop of lines 152-188 from property i on
RECURSIVE LexicalFrom(_, _, _, _, _)
LexicalFrom(col_name, expanded_col, properties, i, scores) ==
    IF i > Len(properties) THEN scores
    ELSE LexicalFrom(col_name, expanded_col, properties, i + 1,
                     DictSet(scores, properties[i].uri,
                             LexicalScore(col_name, expanded_col, properties[i],
                                          PropText(properties[i]))))

\* _get_lexical_scores: a dict from property URI to score
get_lexical_scores(column, properties) ==
    LexicalFrom(SpacedLower(column), ExpandFrom(SpacedLower(column), 1),
                properties, 1, <<>>)

----------------------------------------------------------------------------
(* SemanticSimilarityMatcher: construction and match *)

SEMANTIC_SIMILARITY == "semantic-similarity"

\* lines 48-52: the domain of every property the reasoner knows, <<>> for None
PropDomainCache(reasoner) ==
    IF reasoner = <<>> THEN <<>>
    ELSE [i \in 1..Len(reasoner[1].properties) |->
             [key |-> reasoner[1].properties[i].uri,
              value |-> reasoner[1].properties[i].domain]]

\* a faulty variant: a failure of the embedding model leaves the constructor
SemanticInit_propagates(enabled, threshold, reasoner, use_embeddings, init_raises) ==
    [outcome |-> IF enabled /\ use_embeddings /\ init_raises THEN "Exception" ELSE "ok",
     enabled |-> enabled, threshold |-> threshold, reasoner |-> reasoner,
     use_embeddings |-> use_embeddings,
     domain_boost |-> Hundredths(10), cooccurrence_boost |-> Hundredths(5),
     embeddings_matcher |-> "none",
     prop_domain |-> PropDomainCache(reasoner),
     init_raised |-> enabled /\ use_embeddings /\ init_raises]

\* __init__ (lines 21-52) with the default boosts.  init_raises says whether
\* EmbeddingsMatcher(model_name) raises; embeddings_matcher is "ready" or,
\* for None, "none"; init_raised records that the exception was swallowed.
SemanticInit(enabled, threshold, reasoner, use_embeddings, init_raises) ==
    [outcome |-> "ok",
     enabled |-> enabled, threshold |-> threshold, reasoner |-> reasoner,
     use_embeddings |-> use_embeddings,
     domain_boost |-> Hundredths(10), cooccurrence_boost |-> Hundredths(5),
     embeddings_matcher |->
         IF enabled /\ use_embeddings /\ ~init_raises THEN "ready" ELSE "none",
     prop_domain |-> PropDomainCache(reasoner),
     init_raised |-> enabled /\ use_embeddings /\ init_raises]

\* lines 118-122: the lexical scores fill in what scores does not hold yet
RECURSIVE FillIn(_, _, _)
FillIn(scores, lexical_scores, i) ==
    IF i > Len(lexical_scores) THEN scores
    ELSE FillIn(IF DictHas(scores, lexical_scores[i].key) THEN scores
                ELSE DictSet(scores, lexical_scores[i].key, lexical_scores[i].value),
                lexical_scores, i + 1)

\* _get_base_scores; embedded is what self._embeddings_matcher.match returns
\* when it is asked: <<>> for None, else <<[uri, similarity]>>
get_base_scores(sm, column, properties, embedded) ==
    FillIn(IF sm.embeddings_matcher = "ready" /\ embedded # <<>>
           THEN <<[key |-> embedded[1].uri, value |-> embedded[1].similarity]>>
           ELSE <<>>,
           get_lexical_scores(column, properties), 1)

\* line 203: the URIs of the properties matched so far
MatchedPropUris(context) ==
    {context[1].matched_properties[i].value :
        i \in 1..Len(context[1].matched_properties)}

\* lines 206-210: their domains
MatchedDomains(sm, context) ==
    {DictGetOr(sm.prop_domain, u, <<>>) : u \in MatchedPropUris(context)} \ {<<>>}

\* a faulty variant: the co-occurrence boost is withheld
Boosted_domain_only(sm, score, prop_domain, context) ==
    IF prop_domain # <<>> /\ prop_domain \in MatchedDomains(sm, context)
    THEN Saturate(score + sm.domain_boost)
    ELSE score

\* lines 215-223: the score of one property after the boosts
Boosted(sm, score, prop_domain, context) ==
    IF prop_domain # <<>> /\ prop_domain \in MatchedDomains(sm, context)
    THEN IF \E u \in MatchedPropUris(context) :
                DictGetOr(sm.prop_domain, u, <<>>) = prop_domain
         THEN Saturate(Saturate(score + sm.domain_boost) + sm.cooccurrence_boost)
         ELSE Saturate(score + sm.domain_boost)
    ELSE score

\* the loop of lines 213-223 from property i on
RECURSIVE BoostFrom(_, _, _, _, _)
BoostFrom(sm, final_scores, properties, context, i) ==
    IF i > Len(properties) THEN final_scores
    ELSE IF DictGetOr(sm.prop_domain, properties[i].uri, <<>>) # <<>>
            /\ DictGetOr(sm.prop_domain, properties[i].uri, <<>>)
                   \in MatchedDomains(sm, context)
    THEN BoostFrom(sm,
                   DictSet(final_scores, properties[i].uri,
                           Boosted(sm, DictGetOr(final_scores, properties[i].uri, 0),
                                   DictGetOr(sm.prop_domain, properties[i].uri, <<>>),
                                   context)),
                   properties, context, i + 1)
    ELSE BoostFrom(sm, final_scores, properties, context, i + 1)

\* a faulty variant: the boosts are added without the cap at 1.0
apply_context_boosts_uncapped(sm, base_scores, properties, context) ==
    IF context = <<>> \/ context[1].matched_properties = <<>> \/ sm.reasoner = <<>>
    THEN base_scores
    ELSE [i \in 1..Len(base_scores) |->
             [key |-> base_scores[i].key,
              value |-> IF DictGetOr(sm.prop_domain, base_scores[i].key, <<>>)
                               \in MatchedDomains(sm, context)
                        THEN base_scores[i].value + sm.domain_boost
                                 + sm.cooccurrence_boost
                        ELSE base_scores[i].value]]

\* _apply_context_boosts; context is <<>> for None, else <<the MatchContext>>
apply_context_boosts(sm, base_scores, properties, context) ==
    IF context = <<>> \/ context[1].matched_properties = <<>> \/ sm.reasoner = <<>>
    THEN base_scores
    ELSE BoostFrom(sm, base_scores, properties, context, 1)

\* lines 76-85: best is <<>> or <<[prop, score]>>; the loop from property i on
RECURSIVE BestFrom(_, _, _, _, _)
BestFrom(sm, final_scores, properties, i, best) ==
    IF i > Len(properties) THEN best
    ELSE BestFrom(sm, final_scores, properties, i + 1,
                  IF /\ DictGetOr(final_scores, properties[i].uri, 0)
                           > (IF best = <<>> THEN 0 ELSE best[1].score)
                     /\ DictGetOr(final_scores, properties[i].uri, 0) >= sm.threshold
                  THEN <<[prop |-> properties[i],
                          score |-> DictGetOr(final_scores, properties[i].uri, 0)]>>
                  ELSE best)

\* |x|
Abs(x) == IF x < 0 THEN 0 - x ELSE x

\* lines 87-105: the MatchResult for the best property, <<>> for None;
\* matched_via keeps the numbers the two message formats print
ResultFor(best, base_scores) ==
    IF best = <<>> THEN <<>>
    ELSE <<[property |-> best[1].prop,
            match_type |-> SEMANTIC_SIMILARITY,
            confidence |-> best[1].score,
            matched_via |->
                IF Abs(best[1].score - DictGetOr(base_scores, best[1].prop.uri, 0))
                       > Hundredths(1)
                THEN [format |-> "enhanced_semantic",
                      base |-> DictGetOr(base_scores, best[1].prop.uri, 0),
                      final |-> best[1].score]
                ELSE [format |-> "semantic_similarity",
                      base |-> best[1].score, final |-> best[1].score],
            matcher_name |-> "SemanticSimilarityMatcher"]>>

\* lines 69-105 of match, given the base scores
MatchWith(sm, properties, context, base_scores) ==
    ResultFor(BestFrom(sm, apply_context_boosts(sm, base_scores, properties, context),
                       properties, 1, <<>>),
              base_scores)

\* a faulty variant: a later property with an equal score replaces the best
semantic_match_last_wins(sm, column, properties, context, embedded) ==
    IF ~sm.enabled \/ properties = <<>> THEN <<>>
    ELSE LET base == get_base_scores(sm, column, properties, embedded)
             final == apply_context_boosts(sm, base, properties, context)
             ok == {i \in 1..Len(properties) :
                       /\ DictGetOr(final, properties[i].uri, 0) >= sm.threshold
                       /\ DictGetOr(final, properties[i].uri, 0) > 0}
             top == {i \in ok : \A j \in ok :
                       DictGetOr(final, properties[j].uri, 0)
                           <= DictGetOr(final, properties[i].uri, 0)}
         IN  IF ok = {} THEN <<>>
             ELSE ResultFor(<<[prop |-> properties[CHOOSE i \in top : \A j \in top : j <= i],
                               score |-> DictGetOr(final,
                                   properties[CHOOSE i \in top : \A j \in top : j <= i].uri,
                                   0)]>>,
                            base)

\* SemanticSimilarityMatcher.match
semantic_match(sm, column, properties, context, embedded) ==
    IF ~sm.enabled \/ properties = <<>> THEN <<>>
    ELSE MatchWith(sm, properties, context,
                   get_base_scores(sm, column, properties, embedded))

----------------------------------------------------------------------------
(* create_default_pipeline *)

\* a matcher of the list: its class and its enabled flag
Matcher(name, enabled) == [name |-> name, enabled |-> enabled]

\* lines 84-91
ExactMatchers ==
    <<Matcher("ExactPrefLabelMatcher", TRUE), Matcher("ExactRdfsLabelMatcher", TRUE),
      Matcher("ExactAltLabelMatcher", TRUE), Matcher("ExactHiddenLabelMatcher", TRUE),
      Matcher("ExactLocalNameMatcher", TRUE)>>

\* a faulty variant: the hierarchy matcher is built on its flag alone
OntologyMatchers_unguarded(a) ==
    (IF a.use_hierarchy
     THEN <<Matcher("PropertyHierarchyMatcher", TRUE)>> ELSE <<>>)
    \o (IF a.use_owl_characteristics /\ a.ontology_analyzer
        THEN <<Matcher("OWLCharacteristicsMatcher", TRUE)>> ELSE <<>>)
    \o (IF a.use_restrictions /\ a.ontology_analyzer
        THEN <<Matcher("RestrictionBasedMatcher", TRUE)>> ELSE <<>>)
    \o (IF a.use_skos_relations
        THEN <<Matcher("SKOSRelationsMatcher", TRUE)>> ELSE <<>>)

\* lines 97-134: the ontology-based matchers
OntologyMatchers(a) ==
    (IF a.use_hierarchy /\ a.ontology_analyzer
     THEN <<Matcher("PropertyHierarchyMatcher", TRUE)>> ELSE <<>>)
    \o (IF a.use_owl_characteristics /\ a.ontology_analyzer
        THEN <<Matcher("OWLCharacteristicsMatcher", TRUE)>> ELSE <<>>)
    \o (IF a.use_restrictions /\ a.ontology_analyzer
        THEN <<Matcher("RestrictionBasedMatcher", TRUE)>> ELSE <<>>)
    \o (IF a.use_skos_relations
        THEN <<Matcher("SKOSRelationsMatcher", TRUE)>> ELSE <<>>)

\* lines 137-162: the optional matchers, skipped when their import fails
OptionalMatchers(a) ==
    (IF /\ a.use_probabilistic_reasoning /\ a.ontology_analyzer /\ a.reasoner
        /\ a.probabilistic_importable
     THEN <<Matcher("ProbabilisticGraphMatcher", TRUE)>> ELSE <<>>)
    \o (IF a.use_ontology_validation /\ a.ontology_analyzer /\ a.validation_importable
        THEN <<Matcher("OntologyValidationMatcher", TRUE)>> ELSE <<>>)

\* lines 165-170
OtherMatchers(a) ==
    <<Matcher("HistoryAwareMatcher", a.use_history),
      Matcher("SemanticSimilarityMatcher", a.use_semantic),
      Matcher("DataTypeInferenceMatcher", a.use_datatype),
      Matcher("StructuralMatcher", a.use_structural)>>

\* lines 173-180
GraphMatchers(a) ==
    IF a.use_graph_reasoning /\ a.reasoner
    THEN <<Matcher("GraphReasoningMatcher", TRUE)>> ELSE <<>>

\* lines 183-186
FallbackMatchers ==
    <<Matcher("PartialStringMatcher", TRUE), Matcher("FuzzyStringMatcher", TRUE)>>

\* a faulty variant: the graph-reasoning matcher is appended after the fallbacks
create_default_pipeline_graph_last(a) ==
    ExactMatchers \o OntologyMatchers(a) \o OptionalMatchers(a) \o OtherMatchers(a)
    \o FallbackMatchers \o GraphMatchers(a)

\* create_default_pipeline: the matcher list handed to MatcherPipeline.
\* reasoner and ontology_analyzer say whether the collaborator is supplied.
create_default_pipeline(a) ==
    ExactMatchers \o OntologyMatchers(a) \o OptionalMatchers(a) \o OtherMatchers(a)
    \o GraphMatchers(a) \o FallbackMatchers

----------------------------------------------------------------------------
(* Column names, labels and URIs of the inputs *)

sAB == <<"a", "b">>
sA_B == <<"A", "_", "b">>
sAspB == <<"A", " ", "b">>
sA == <<"a">>
sBAB == <<"b", "a", "b">>
sUnderscore == <<"_">>
sSpace == <<" ">>
sFirst_Name == <<"F", "i", "r", "s", "t", "_", "N", "a", "m", "e">>
sFirstSpName == <<"F", "i", "r", "s", "t", " ", "N", "a", "m", "e">>

uriAB == <<"n", "#", "a", "b">>
uriBAB == <<"n", "/", "b", "a", "b">>
uriFirstName == <<"n", "#", "f", "i", "r", "s", "t", "N", "a", "m", "e">>
uriA_B == <<"n", "/", "x", "#", "A", "_", "b">>
uriUnderscore == <<"n", "#", "_">>

----------------------------------------------------------------------------
(* Inputs of the generator: ontologies, spreadsheets, configurations *)

sP == <<"P">>
sQ == <<"Q">>
sName == <<"N", "a", "m", "e">>
sDOB == <<"D", "O", "B">>
sNa == <<"N", "a">>
sD_ob == <<"D", " ", "o", "b">>
sComment == <<"c">>

uriP == <<"n", "#", "P">>
uriQ == <<"n", "/", "Q">>
uriNm == <<"n", "/", "n", "m">>
uriLink == <<"n", "#", "l", "i", "n", "k">>
uriSelfLink == <<"n", "/", "l", "i", "n", "k">>
uriBack == <<"n", "#", "b", "a", "c", "k">>

Class(uri, label) == [uri |-> uri, label |-> label]

\* the class lists, each with the suggestions the file stem may get
ClassLists ==
    {<<>>,
     <<Class(uriP, sP)>>,
     <<Class(uriP, sP), Class(uriQ, <<>>)>>,
     <<Class(uriQ, sP), Class(uriP, sQ)>>}

SuggestionsFor(classes) ==
    IF Len(classes) < 2 THEN {<<>>} ELSE {<<>>, <<classes[2], classes[1]>>}

pFirst(pref_label) ==
    [uri |-> uriFirstName, pref_label |-> pref_label, label |-> <<>>,
     alt_labels |-> <<>>, hidden_labels |-> <<>>, comment |-> sComment,
     kind |-> "datatype", domain |-> uriP, range_type |-> <<>>]

pNm(domain) ==
    [uri |-> uriNm, pref_label |-> <<>>, label |-> sNa,
     alt_labels |-> <<>>, hidden_labels |-> <<sD_ob>>, comment |-> <<>>,
     kind |-> "datatype", domain |-> domain, range_type |-> <<>>]

pLink ==
    [uri |-> uriLink, pref_label |-> <<>>, label |-> <<>>,
     alt_labels |-> <<>>, hidden_labels |-> <<>>, comment |-> <<>>,
     kind |-> "object", domain |-> uriP, range_type |-> uriQ]

\* an object property of P whose range is P itself; its local name is "link"
\* as pLink's
pSelf ==
    [uri |-> uriSelfLink, pref_label |-> <<>>, label |-> <<>>,
     alt_labels |-> <<>>, hidden_labels |-> <<>>, comment |-> <<>>,
     kind |-> "object", domain |-> uriP, range_type |-> uriP]

\* an object property of Q back to P: with pLink the classes form a cycle
pBack ==
    [uri |-> uriBack, pref_label |-> <<>>, label |-> <<>>,
     alt_labels |-> <<>>, hidden_labels |-> <<>>, comment |-> <<>>,
     kind |-> "object", domain |-> uriQ, range_type |-> uriP]

DatatypeLists ==
    {<<>>, <<pFirst(sFirstSpName), pNm(uriP)>>, <<pFirst(<<>>), pNm(uriQ)>>}

ObjectLists == {<<pLink, pSelf, pBack>>}

Ontologies ==
    {[file |-> "ontology.ttl",
      classes |-> cl,
      suggested_for |-> <<"t">>,
      suggestions |-> sg,
      properties |-> dl \o ol,
      namespaces |-> <<[key |-> <<"e", "x">>, value |-> <<"n", "#">>]>>] :
        cl \in ClassLists, sg \in UNION {SuggestionsFor(c) : c \in ClassLists},
        dl \in DatatypeLists, ol \in ObjectLists}

WellFormedOntology(o) == o.suggestions \in SuggestionsFor(o.classes)

Analyses ==
    <<[key |-> sFirst_Name,
       value |-> [suggested_datatype |-> "xsd:string", is_required |-> TRUE,
                  sample_values |-> <<"v1", "v2", "v3", "v4", "v5", "v6">>]],
      [key |-> sName,
       value |-> [suggested_datatype |-> "", is_required |-> FALSE,
                  sample_values |-> <<>>]],
      [key |-> sDOB,
       value |-> [suggested_datatype |-> "xsd:date", is_required |-> FALSE,
                  sample_values |-> <<"d1", "d2">>]]>>

ColumnLists == {<<>>, <<sName, sDOB>>, <<sFirst_Name, sName>>}

Spreadsheets ==
    {[file_path |-> [abs |-> TRUE, parts |-> <<<<"d">>, <<"t", ".", "c", "s", "v">>>>],
      columns |-> cols,
      analyses |-> Analyses,
      id_cols |-> ids] : cols \in ColumnLists, ids \in {<<>>, <<sFirst_Name>>}}

\* the identifier columns the analysis suggests are columns of the sheet
WellFormedSpreadsheet(sh) ==
    sh.id_cols = IF sFirst_Name \in {sh.columns[i] : i \in 1..Len(sh.columns)}
                 THEN <<sFirst_Name>> ELSE <<>>

\* GeneratorConfig with its defaults
DefaultConfig ==
    [base_iri |-> "http://example.org/", default_class_prefix |-> <<"r", "e", "s", "o", "u", "r", "c", "e">>,
     include_comments |-> TRUE, auto_detect_relationships |-> TRUE,
     min_confidence |-> 50]

Configs ==
    {DefaultConfig,
     [base_iri |-> "http://example.org/", default_class_prefix |-> <<"r", "e", "s", "o", "u", "r", "c", "e">>,
      include_comments |-> FALSE, auto_detect_relationships |-> FALSE,
      min_confidence |-> 100]}

\* the arguments of the public calls
Targets == {<<>>, sP, sQ}

OutA == [abs |-> TRUE, parts |-> <<<<"d">>, <<"m", ".", "y", "m", "l">>>>]
OutB == [abs |-> TRUE, parts |-> <<<<"o">>, <<"m", ".", "y", "m", "l">>>>]

OutputPaths == {<<>>, <<OutA>>}

SavePaths == {OutA, OutB}

----------------------------------------------------------------------------
(* The generator: construction and public calls *)

Call(op, target_class, out, outcome) ==
    [op |-> op, target_class |-> target_class, output_path |-> out, outcome |-> outcome]

\* the operations that have succeeded once the call c has returned
SucceededWith(c) == IF c.outcome = "ok" THEN succeeded \cup {c.op} ELSE succeeded

\* MappingGenerator.__init__
GenInit ==
    /\ ontology \in {o \in Ontologies : WellFormedOntology(o)}
    /\ spreadsheet \in {sh \in Spreadsheets : WellFormedSpreadsheet(sh)}
    /\ config \in Configs
    /\ mapping = <<>>
    /\ alignment_report = <<>>
    /\ mapped_columns = <<>>
    /\ unmapped_columns = <<>>
    /\ output_path = [set |-> FALSE, path |-> <<>>]
    /\ files = <<>>
    /\ lastCall = Call("init", <<>>, <<>>, "ok")
    /\ calls = 0
    /\ repeated = FALSE
    /\ succeeded = {}

\* generate(target_class, output_path)
Generate(target_class, out) ==
    \E r \in {generate(target_class, out, mapping, mapped_columns, unmapped_columns)} :
        /\ calls < MaxCalls
        /\ calls' = calls + 1
        /\ output_path' = [set |-> TRUE, path |-> out]
        /\ mapping' = r.mapping
        /\ mapped_columns' = r.mapped
        /\ unmapped_columns' = r.unmapped
        /\ lastCall' = Call("generate", target_class, out, r.outcome)
        /\ succeeded' = SucceededWith(lastCall')
        /\ repeated' = (r.outcome = "ok" /\ lastCall = Call("generate", target_class, out, "ok"))
        /\ UNCHANGED <<ontology, spreadsheet, config, alignment_report, files>>

\* generate_with_alignment_report(target_class, output_path)
GenerateWithAlignmentReport(target_class, out) ==
    \E r \in {generate(target_class, out, mapping, mapped_columns, unmapped_columns)},
       resolved_class \in {TargetClass(target_class)} :
        /\ calls < MaxCalls
        /\ calls' = calls + 1
        /\ output_path' = [set |-> TRUE, path |-> out]
        /\ mapping' = r.mapping
        /\ mapped_columns' = r.mapped
        /\ unmapped_columns' = r.unmapped
        /\ alignment_report' =
               IF r.outcome = "ok" /\ resolved_class # <<>>
               THEN <<build_alignment_report(resolved_class[1], r.mapped, r.unmapped)>>
               ELSE alignment_report
        /\ lastCall' = Call("generate_with_alignment_report", target_class, out, r.outcome)
        /\ succeeded' = SucceededWith(lastCall')
        /\ repeated' = /\ r.outcome = "ok"
                       /\ lastCall = Call("generate_with_alignment_report",
                                          target_class, out, "ok")
        /\ UNCHANGED <<ontology, spreadsheet, config, files>>

\* lines 420-429 of save_yaml: the class whose CURIE the mapping's sheet names
SheetClass(m) ==
    SelectSeq(ontology.classes,
              LAMBDA c : format_uri(c.uri) = m.sheets[1].row_resource.class)

\* a faulty variant: the regeneration never names the class
Regenerate_auto(output_file, found) ==
    IF (~output_path.set \/ output_path.path # <<output_file>>) /\ found # <<>>
    THEN generate(<<>>, <<output_file>>, mapping, mapped_columns, unmapped_columns)
    ELSE [outcome |-> "same", mapping |-> mapping,
          mapped |-> mapped_columns, unmapped |-> unmapped_columns]

\* lines 417-432 of save_yaml: the regeneration when the output path differs
Regenerate(output_file, found) ==
    IF (~output_path.set \/ output_path.path # <<output_file>>) /\ found # <<>>
    THEN generate(found[1].label, <<output_file>>, mapping,
                  mapped_columns, unmapped_columns)
    ELSE [outcome |-> "same", mapping |-> mapping,
          mapped |-> mapped_columns, unmapped |-> unmapped_columns]

\* save_yaml(output_file); the write succeeds or raises OSError
SaveYaml(output_file, write_ok) ==
    \/ /\ mapping = <<>>
       /\ calls < MaxCalls
       /\ calls' = calls + 1
       /\ lastCall' = Call("save_yaml", <<>>, <<output_file>>, "ValueError")
       /\ succeeded' = SucceededWith(lastCall')
       /\ repeated' = FALSE
       /\ UNCHANGED <<ontology, spreadsheet, config, mapping, alignment_report,
                      mapped_columns, unmapped_columns, output_path, files>>
    \/ /\ mapping # <<>>
       /\ calls < MaxCalls
       /\ \E r \in {Regenerate(output_file, SheetClass(mapping[1]))} :
            /\ calls' = calls + 1
            /\ output_path' = IF r.outcome = "same" THEN output_path
                              ELSE [set |-> TRUE, path |-> <<output_file>>]
            /\ mapping' = r.mapping
            /\ mapped_columns' = r.mapped
            /\ unmapped_columns' = r.unmapped
            /\ files' = IF r.outcome \in {"same", "ok"} /\ write_ok
                        THEN DictSet(files, output_file, r.mapping[1])
                        ELSE files
            /\ lastCall' = Call("save_yaml", <<>>, <<output_file>>,
                                IF r.outcome \notin {"same", "ok"} THEN r.outcome
                                ELSE IF write_ok THEN "ok" ELSE "OSError")
            /\ succeeded' = SucceededWith(lastCall')
            /\ repeated' = FALSE
            /\ UNCHANGED <<ontology, spreadsheet, config, alignment_report>>

\* a faulty variant: a failed write drops the mapping
SaveJson_drops(output_file, write_ok) ==
    \/ /\ mapping = <<>>
       /\ calls < MaxCalls
       /\ calls' = calls + 1
       /\ lastCall' = Call("save_json", <<>>, <<output_file>>, "ValueError")
       /\ succeeded' = SucceededWith(lastCall')
       /\ repeated' = FALSE
       /\ UNCHANGED <<ontology, spreadsheet, config, mapping, alignment_report,
                      mapped_columns, unmapped_columns, output_path, files>>
    \/ /\ mapping # <<>>
       /\ calls < MaxCalls
       /\ calls' = calls + 1
       /\ files' = IF write_ok THEN DictSet(files, output_file, mapping[1]) ELSE files
       /\ mapping' = IF write_ok THEN mapping ELSE <<>>
       /\ lastCall' = Call("save_json", <<>>, <<output_file>>,
                           IF write_ok THEN "ok" ELSE "OSError")
       /\ succeeded' = SucceededWith(lastCall')
       /\ repeated' = FALSE
       /\ UNCHANGED <<ontology, spreadsheet, config, alignment_report,
                      mapped_columns, unmapped_columns, output_path>>

\* save_json(output_file); the write succeeds or raises OSError
SaveJson(output_file, write_ok) ==
    \/ /\ mapping = <<>>
       /\ calls < MaxCalls
       /\ calls' = calls + 1
       /\ lastCall' = Call("save_json", <<>>, <<output_file>>, "ValueError")
       /\ succeeded' = SucceededWith(lastCall')
       /\ repeated' = FALSE
       /\ UNCHANGED <<ontology, spreadsheet, config, mapping, alignment_report,
                      mapped_columns, unmapped_columns, output_path, files>>
    \/ /\ mapping # <<>>
       /\ calls < MaxCalls
       /\ calls' = calls + 1
       /\ files' = IF write_ok THEN DictSet(files, output_file, mapping[1]) ELSE files
       /\ lastCall' = Call("save_json", <<>>, <<output_file>>,
                           IF write_ok THEN "ok" ELSE "OSError")
       /\ succeeded' = SucceededWith(lastCall')
       /\ repeated' = FALSE
       /\ UNCHANGED <<ontology, spreadsheet, config, mapping, alignment_report,
                      mapped_columns, unmapped_columns, output_path>>

\* export_alignment_report(output_file); the write succeeds or raises OSError
ExportAlignmentReport(output_file, write_ok) ==
    \/ /\ alignment_report = <<>>
       /\ calls < MaxCalls
       /\ calls' = calls + 1
       /\ lastCall' = Call("export_alignment_report", <<>>, <<output_file>>, "ValueError")
       /\ succeeded' = SucceededWith(lastCall')
       /\ repeated' = FALSE
       /\ UNCHANGED <<ontology, spreadsheet, config, mapping, alignment_report,
                      mapped_columns, unmapped_columns, output_path, files>>
    \/ /\ alignment_report # <<>>
       /\ calls < MaxCalls
       /\ calls' = calls + 1
       /\ files' = IF write_ok THEN DictSet(files, output_file, alignment_report[1])
                   ELSE files
       /\ lastCall' = Call("export_alignment_report", <<>>, <<output_file>>,
                           IF write_ok THEN "ok" ELSE "OSError")
       /\ succeeded' = SucceededWith(lastCall')
       /\ repeated' = FALSE
       /\ UNCHANGED <<ontology, spreadsheet, config, mapping, alignment_report,
                      mapped_columns, unmapped_columns, output_path>>

\* a faulty variant: the summary is printed without testing for a report
PrintAlignmentSummary_silent ==
    /\ calls < MaxCalls
    /\ calls' = calls + 1
    /\ lastCall' = Call("print_alignment_summary", <<>>, <<>>, "ok")
    /\ succeeded' = SucceededWith(lastCall')
    /\ repeated' = FALSE
    /\ UNCHANGED <<ontology, spreadsheet, config, mapping, alignment_report,
                   mapped_columns, unmapped_columns, output_path, files>>

\* print_alignment_summary()
PrintAlignmentSummary ==
    /\ calls < MaxCalls
    /\ calls' = calls + 1
    /\ lastCall' = Call("print_alignment_summary", <<>>, <<>>,
                        IF alignment_report = <<>> THEN "ValueError" ELSE "ok")
    /\ succeeded' = SucceededWith(lastCall')
    /\ repeated' = FALSE
    /\ UNCHANGED <<ontology, spreadsheet, config, mapping, alignment_report,
                   mapped_columns, unmapped_columns, output_path, files>>

----------------------------------------------------------------------------
(* Inputs of the matcher harness *)

MatchColumns == {sA_B, sA, sUnderscore}
MatchURIs == {uriAB, uriBAB, uriA_B}
MatchPrefLabels == {<<>>, sAspB}
MatchLabels == {<<>>, sBAB}
MatchAltLabels == {<<>>, <<sA_B>>}
MatchHiddenLabels == {<<>>, <<sAB>>}

\* a property without labels whose local name is "_"
pUnderscore ==
    [uri |-> uriUnderscore, pref_label |-> <<>>, label |-> <<>>,
     alt_labels |-> <<>>, hidden_labels |-> <<>>, comment |-> <<>>]

MatchPropUniverse ==
    [uri : MatchURIs, pref_label : MatchPrefLabels, label : MatchLabels,
     alt_labels : MatchAltLabels, hidden_labels : MatchHiddenLabels,
     comment : {<<>>}]
    \cup {pUnderscore}

\* property lists: up to MaxProps properties with pairwise distinct URIs
RECURSIVE PropLists(_, _)
PropLists(universe, n) ==
    IF n = 0 THEN {<<>>}
    ELSE LET shorter == PropLists(universe, n - 1)
         IN  shorter \cup
             {Append(l, p) : l \in {x \in shorter : Len(x) = n - 1}, p \in universe}

DistinctURIs(l) == \A i, j \in 1..Len(l) : i # j => l[i].uri # l[j].uri

MatchPropLists == {l \in PropLists(MatchPropUniverse, MaxProps) : DistinctURIs(l)}

----------------------------------------------------------------------------
(* The matcher harness: draw a column and a property list, then match *)

MatchInit ==
    /\ mCol \in MatchColumns
    /\ mProps \in MatchPropLists
    /\ mResult = <<>>
    /\ mPc = "input"

Match ==
    /\ mPc = "input"
    /\ mResult' = match_column_to_property(mCol, mProps)
    /\ mPc' = "matched"
    /\ UNCHANGED <<mCol, mProps>>

\* the caller hands the same properties over in another order
Permute ==
    /\ mPc = "matched"
    /\ Len(mProps) >= 2
    /\ mProps' = Append(Tail(mProps), Head(mProps))
    /\ mResult' = <<>>
    /\ mPc' = "input"
    /\ UNCHANGED mCol

\* the harness is not in use
MatchIdle ==
    /\ mCol = <<>>
    /\ mProps = <<>>
    /\ mResult = <<>>
    /\ mPc = "idle"

\* the generator is not in use: one fixed ontology, spreadsheet and config
GenIdle ==
    /\ ontology = [file |-> "ontology.ttl", classes |-> <<>>, suggested_for |-> <<>>,
                    suggestions |-> <<>>, properties |-> <<>>, namespaces |-> <<>>]
    /\ spreadsheet = [file_path |-> [abs |-> TRUE, parts |-> <<>>], columns |-> <<>>,
                       analyses |-> <<>>, id_cols |-> <<>>]
    /\ config = DefaultConfig
    /\ mapping = <<>>
    /\ alignment_report = <<>>
    /\ mapped_columns = <<>>
    /\ unmapped_columns = <<>>
    /\ output_path = [set |-> FALSE, path |-> <<>>]
    /\ files = <<>>
    /\ lastCall = Call("init", <<>>, <<>>, "ok")
    /\ calls = 0
    /\ repeated = FALSE
    /\ succeeded = {}

----------------------------------------------------------------------------
(* Inputs of the semantic matcher and of the pipeline factory *)

sDOBcol == <<"D", "O", "B">>
sFname == <<"f", "n", "a", "m", "e">>
sDate == <<"D", "a", "t", "e">>
sBirthDateLabel == <<"b", "i", "r", "t", "h", " ", "d", "a", "t", "e">>
sBirthRecord == <<"b", "i", "r", "t", "h", " ", "r", "e", "c", "o", "r", "d">>
uriBirthDate == <<"n", "#", "b", "i", "r", "t", "h", "D", "a", "t", "e">>
uriBirth_date == <<"n", "#", "b", "i", "r", "t", "h", "_", "d", "a", "t", "e">>
uriNote == <<"n", "/", "n", "o", "t", "e">>
domD == <<"D">>
domE == <<"E">>

SemProp(uri, pref_label, label, comment, domain) ==
    [uri |-> uri, pref_label |-> pref_label, label |-> label, alt_labels |-> <<>>,
     hidden_labels |-> <<>>, comment |-> comment, domain |-> domain]

\* a property whose only label is "birth date"
spBirthDate == SemProp(uriBirthDate, <<>>, sBirthDateLabel, <<>>, domD)
\* a property without labels whose local name is "birth_date"
spBirth_date == SemProp(uriBirth_date, <<>>, <<>>, <<>>, domD)
spFirstName == SemProp(uriFirstName, sFirstSpName, <<>>, <<>>, domD)
spNote == SemProp(uriNote, <<>>, sDate, sBirthRecord, domE)

SemColumns == {sDOBcol, sFname, sDate}
SemPropUniverse == {spBirthDate, spBirth_date, spFirstName, spNote}
SemPropLists == {l \in PropLists(SemPropUniverse, MaxProps) : DistinctURIs(l)}
SemThresholds == {Hundredths(60), Hundredths(90), Hundredths(100)}

\* no reasoner, or one that knows every property
SemReasoners ==
    {<<>>, <<[properties |-> <<spBirthDate, spBirth_date, spFirstName, spNote>>]>>}

\* no context, nothing matched yet, or "fname" matched to firstName
SemContexts ==
    {<<>>,
     <<[matched_properties |-> <<>>]>>,
     <<[matched_properties |-> <<[key |-> sFname, value |-> uriFirstName]>>]>>}

SemSimilarities == {Hundredths(50), Hundredths(90)}

\* what the embedding model may answer for a property list: None, or any of
\* the properties with any similarity
EmbeddedChoices(properties) ==
    {<<>>} \cup
    {<<[uri |-> properties[i].uri, similarity |-> sim]>> :
        i \in 1..Len(properties), sim \in SemSimilarities}

FactoryArgs ==
    [use_semantic : BOOLEAN, use_datatype : BOOLEAN, use_history : BOOLEAN,
     use_structural : BOOLEAN, use_graph_reasoning : BOOLEAN,
     use_hierarchy : BOOLEAN, use_owl_characteristics : BOOLEAN,
     use_restrictions : BOOLEAN, use_skos_relations : BOOLEAN,
     reasoner : BOOLEAN, ontology_analyzer : BOOLEAN,
     use_probabilistic_reasoning : BOOLEAN, use_ontology_validation : BOOLEAN,
     probabilistic_importable : BOOLEAN, validation_importable : BOOLEAN]

----------------------------------------------------------------------------
(* The semantic matcher and the pipeline factory: construction and calls *)

\* SemanticSimilarityMatcher(enabled, threshold, reasoner=..., use_embeddings)
SemInit ==
    /\ sem \in {<<SemanticInit(en, th, r, ue, raises)>> :
                   en \in BOOLEAN, th \in SemThresholds, r \in SemReasoners,
                   ue \in BOOLEAN, raises \in BOOLEAN}
    /\ semCall = <<>>

\* match(column, properties, context) on a matcher that was constructed; the
\* embedding model is asked only when it was initialised
SemMatch(column, properties, context, embedded) ==
    /\ sem[1].outcome = "ok"
    /\ semCall = <<>>
    /\ sem[1].embeddings_matcher # "ready" => embedded = <<>>
    /\ \E r \in {semantic_match(sem[1], column, properties, context, embedded)} :
          semCall' = <<[column |-> column, properties |-> properties,
                        context |-> context, embedded |-> embedded, result |-> r]>>
    /\ UNCHANGED sem

\* the caller is done with the result; the matcher is ready for the next call
SemForget ==
    /\ semCall # <<>>
    /\ semCall' = <<>>
    /\ UNCHANGED sem

FactoryInit ==
    /\ fArgs \in {<<a>> : a \in FactoryArgs}
    /\ fPipeline = <<>>

\* create_default_pipeline(**fArgs)
CreateDefaultPipeline ==
    /\ fPipeline = <<>>
    /\ fPipeline' = <<create_default_pipeline(fArgs[1])>>
    /\ UNCHANGED fArgs

----------------------------------------------------------------------------
(* The backend: the conversion router and its Celery task *)

\* the projects a request can name
Projects == {"p1", "p2"}

\* the output formats a request can ask for
OutputFormats == {"turtle", "nt"}

\* the task ids the broker hands out, in the order of the calls of delay()
TaskIds == 1..MaxTasks

\* format_extensions.get(output_format, "ttl")
format_extensions(output_format) ==
    CASE output_format = "turtle" -> "ttl"
      [] output_format = "json-ld" -> "jsonld"
      [] output_format = "xml" -> "rdf"
      [] output_format = "nt" -> "nt"
      [] output_format = "n3" -> "n3"
      [] OTHER -> "ttl"

\* RDFMapService.convert_to_rdf: the dictionary it returns, or the exception
\* it re-raises (the dictionary has no "status" key)
service_convert_to_rdf(project_id, output_format, conversion_fails) ==
    IF conversion_fails
    THEN [outcome |-> "Exception", result |-> <<>>]
    ELSE [outcome |-> "ok",
          result |-> <<[output_file |-> <<project_id, format_extensions(output_format)>>,
                        format |-> output_format]>>]

\* a faulty variant: the task lets the exception of the conversion escape
convert_to_rdf_task_propagates(project_id, output_format, conversion_fails) ==
    LET run == service_convert_to_rdf(project_id, output_format, conversion_fails)
    IN IF run.outcome = "ok"
       THEN [raised |-> FALSE,
             value |-> [status |-> "success", result |-> run.result, error |-> <<>>]]
       ELSE [raised |-> TRUE,
             value |-> [status |-> "", result |-> <<>>, error |-> <<run.outcome>>]]

\* convert_to_rdf_task: what the body of the task returns or raises
convert_to_rdf_task(project_id, output_format, conversion_fails) ==
    LET run == service_convert_to_rdf(project_id, output_format, conversion_fails)
    IN IF run.outcome = "ok"
       THEN [raised |-> FALSE,
             value |-> [status |-> "success", result |-> run.result, error |-> <<>>]]
       ELSE [raised |-> FALSE,
             value |-> [status |-> "error", result |-> <<>>, error |-> <<run.outcome>>]]

\* Celery: the state it stores for a task body that returned or raised
TaskState(run) ==
    [state |-> IF run.raised THEN "FAILURE" ELSE "SUCCESS", result |-> run.value]

\* the number of task ids handed out so far
Issued == Len(celery_queue) + Len(celery_results)

\* AsyncResult(task_id): the stored state, PENDING for a task without one
AsyncResult(task_id) ==
    IF DictHas(celery_results, task_id)
    THEN DictGet(celery_results, task_id)
    ELSE [state |-> "PENDING",
          result |-> [status |-> "", result |-> <<>>, error |-> <<>>]]

\* an answer of the router with the request it answers
Answer(endpoint, project_id, task_id, use_background, code, status, result, error) ==
    [endpoint |-> endpoint, project_id |-> project_id, task_id |-> task_id,
     use_background |-> use_background, code |-> code, status |-> status,
     result |-> result, error |-> error]

\* a faulty variant: the mapping file is never looked for
MappingFileExists_always(project_id) == TRUE

\* mapping_file.exists()
MappingFileExists(project_id) == project_id \in mapping_files

\* get_job_status: the answer for a task id
get_job_status(task_id, backend_up) ==
    IF ~backend_up
    THEN Answer("job", "", task_id, FALSE, 500, "", <<>>, <<"Exception">>)
    ELSE LET res == AsyncResult(task_id)
         IN IF res.state = "SUCCESS"
            THEN Answer("job", "", task_id, FALSE, 200, res.state, <<res.result>>, <<>>)
            ELSE IF res.state = "FAILURE"
            THEN Answer("job", "", task_id, FALSE, 200, res.state, <<>>, <<res.result>>)
            ELSE Answer("job", "", task_id, FALSE, 200, res.state, <<>>, <<>>)

\* no request was made, nothing is queued or stored
BackendIdle ==
    /\ mapping_files = {}
    /\ celery_queue = <<>>
    /\ celery_results = <<>>
    /\ conversions = <<>>
    /\ response = <<>>
    /\ requests = 0

\* the backend with any set of projects that have their mapping file
BackendInit ==
    /\ mapping_files \in SUBSET Projects
    /\ celery_queue = <<>>
    /\ celery_results = <<>>
    /\ conversions = <<>>
    /\ response = <<>>
    /\ requests = 0

\* POST /{project_id}: convert_to_rdf
ConvertToRdf(project_id, output_format, use_background, broker_up, conversion_fails) ==
    /\ requests < MaxRequests
    /\ (use_background /\ broker_up) => Issued < MaxTasks
    /\ requests' = requests + 1
    /\ UNCHANGED <<mapping_files, celery_results>>
    /\ IF ~MappingFileExists(project_id)
       THEN /\ response' = <<Answer("convert", project_id, 0, use_background, 400, "",
                                    <<>>, <<"No mapping configuration found">>)>>
            /\ UNCHANGED <<celery_queue, conversions>>
       ELSE IF use_background
       THEN IF broker_up
            THEN /\ celery_queue' = Append(celery_queue,
                                           [task_id |-> Issued + 1,
                                            project_id |-> project_id,
                                            output_format |-> output_format])
                 /\ response' = <<Answer("convert", project_id, Issued + 1, use_background,
                                         200, "queued", <<>>, <<>>)>>
                 /\ UNCHANGED conversions
            ELSE /\ response' = <<Answer("convert", project_id, 0, use_background, 500, "",
                                         <<>>, <<"Exception">>)>>
                 /\ UNCHANGED <<celery_queue, conversions>>
       ELSE LET run == service_convert_to_rdf(project_id, output_format, conversion_fails)
            IN /\ conversions' = Append(conversions,
                                        [by |-> "request", task_id |-> 0,
                                         project_id |-> project_id,
                                         outcome |-> run.outcome])
               /\ response' =
                      IF run.outcome = "ok"
                      THEN <<Answer("convert", project_id, 0, use_background, 200,
                                    "success", run.result, <<>>)>>
                      ELSE <<Answer("convert", project_id, 0, use_background, 500, "",
                                    <<>>, <<run.outcome>>)>>
               /\ UNCHANGED celery_queue

\* the Celery worker runs the oldest queued convert_to_rdf_task
RunTask(conversion_fails) ==
    /\ celery_queue # <<>>
    /\ LET msg == Head(celery_queue)
           run == convert_to_rdf_task(msg.project_id, msg.output_format, conversion_fails)
       IN /\ celery_queue' = Tail(celery_queue)
          /\ celery_results' = DictSet(celery_results, msg.task_id, TaskState(run))
          /\ conversions' = Append(conversions,
                                   [by |-> "worker", task_id |-> msg.task_id,
                                    project_id |-> msg.project_id,
                                    outcome |-> IF conversion_fails THEN "Exception" ELSE "ok"])
    /\ UNCHANGED <<mapping_files, response, requests>>

\* GET /job/{task_id}: get_job_status
GetJobStatus(task_id, backend_up) ==
    /\ requests < MaxRequests
    /\ requests' = requests + 1
    /\ response' = <<get_job_status(task_id, backend_up)>>
    /\ UNCHANGED <<mapping_files, celery_queue, celery_results, conversions>>

----------------------------------------------------------------------------
(* Specifications *)

\* the semantic matcher is not in use
SemIdle == sem = <<>> /\ semCall = <<>>

\* the pipeline factory is not in use
FactoryIdle == fArgs = <<>> /\ fPipeline = <<>>

Init == GenInit /\ MatchIdle /\ SemIdle /\ FactoryIdle /\ BackendIdle

Next ==
    \/ \E t \in Targets, o \in OutputPaths :
          Generate(t, o) /\ UNCHANGED <<mvars, svars, fvars, bvars>>
    \/ \E t \in Targets, o \in OutputPaths :
          GenerateWithAlignmentReport(t, o) /\ UNCHANGED <<mvars, svars, fvars, bvars>>
    \/ \E f \in SavePaths, ok \in BOOLEAN :
          SaveYaml(f, ok) /\ UNCHANGED <<mvars, svars, fvars, bvars>>
    \/ \E f \in SavePaths, ok \in BOOLEAN :
          SaveJson(f, ok) /\ UNCHANGED <<mvars, svars, fvars, bvars>>
    \/ \E f \in SavePaths, ok \in BOOLEAN :
          ExportAlignmentReport(f, ok) /\ UNCHANGED <<mvars, svars, fvars, bvars>>
    \/ PrintAlignmentSummary /\ UNCHANGED <<mvars, svars, fvars, bvars>>

\* the generator under any sequence of public calls
Spec == Init /\ [][Next]_vars

MatchNext ==
    \/ Match /\ UNCHANGED <<gvars, svars, fvars, bvars>>
    \/ Permute /\ UNCHANGED <<gvars, svars, fvars, bvars>>

\* _match_column_to_property on every column and property list of the bounds
MatchSpecInit == MatchInit /\ GenIdle /\ SemIdle /\ FactoryIdle /\ BackendIdle

MatchSpec == MatchSpecInit /\ [][MatchNext]_vars

SemNext ==
    \/ \E c \in SemColumns, l \in SemPropLists, ctx \in SemContexts :
          \E e \in EmbeddedChoices(l) :
              SemMatch(c, l, ctx, e) /\ UNCHANGED <<gvars, mvars, fvars, bvars>>
    \/ SemForget /\ UNCHANGED <<gvars, mvars, fvars, bvars>>

\* SemanticSimilarityMatcher: every construction, then any sequence of calls
SemSpecInit == SemInit /\ GenIdle /\ MatchIdle /\ FactoryIdle /\ BackendIdle

SemSpec == SemSpecInit /\ [][SemNext]_vars

FactoryNext == CreateDefaultPipeline /\ UNCHANGED <<gvars, mvars, svars, bvars>>

\* create_default_pipeline on every combination of its arguments
FactorySpecInit == FactoryInit /\ GenIdle /\ MatchIdle /\ SemIdle /\ BackendIdle

FactorySpec == FactorySpecInit /\ [][FactoryNext]_vars

BackendNext ==
    \/ \E p \in Projects, f \in OutputFormats, bg \in BOOLEAN, up \in BOOLEAN, fails \in BOOLEAN :
          ConvertToRdf(p, f, bg, up, fails) /\ UNCHANGED <<gvars, mvars, svars, fvars>>
    \/ \E fails \in BOOLEAN : RunTask(fails) /\ UNCHANGED <<gvars, mvars, svars, fvars>>
    \/ \E t \in TaskIds, up \in BOOLEAN :
          GetJobStatus(t, up) /\ UNCHANGED <<gvars, mvars, svars, fvars>>

\* the conversion router and the worker under any sequence of requests
BackendSpecInit == BackendInit /\ GenIdle /\ MatchIdle /\ SemIdle /\ FactoryIdle

BackendSpec == BackendSpecInit /\ [][BackendNext]_vars

----------------------------------------------------------------------------
(* Claims about _match_column_to_property, checked under MatchSpec *)

\* the condition of Priority 1 for a column and a property
PrefLabelCondition(col, p) ==
    p.pref_label # <<>> /\ CleanLabel(col) = CleanLabel(p.pref_label)

\* the condition of Priority 7 for a column and a property
FuzzyCondition(col, p) ==
    \/ Contains(CleanLabel(col), CleanLocal(LocalName(p.uri)))
    \/ Contains(CleanLocal(LocalName(p.uri)), CleanLabel(col))

\* the position of the first property whose prefLabel equals the column name
FirstPref(col, props) ==
    CHOOSE i \in 1..Len(props) :
        /\ PrefLabelCondition(col, props[i])
        /\ \A k \in 1..(i - 1) : ~PrefLabelCondition(col, props[k])

\* C1 as stated: whenever the column's normalized name equals the normalized
\* prefLabel of a property A and satisfies the fuzzy condition against another
\* property B, the matcher returns A with match type exact-pref-label.
C1_PrefBeatsFuzzy_AsStated ==
    mPc = "matched" =>
        \A i, j \in 1..Len(mProps) :
            (i # j /\ PrefLabelCondition(mCol, mProps[i]) /\ FuzzyCondition(mCol, mProps[j]))
            => /\ mResult # <<>>
               /\ mResult[1].match_type = EXACT_PREF_LABEL
               /\ mResult[1].prop = mProps[i]

\* C1 (amended): in that situation the matcher returns, with match type
\* exact-pref-label, the first property in list order whose normalized
\* prefLabel equals the column's normalized name: A unless an earlier property
\* has such a prefLabel too, and B only if B's own prefLabel equals the name.
C1_PrefBeatsFuzzy ==
    mPc = "matched" =>
        \A i, j \in 1..Len(mProps) :
            (i # j /\ PrefLabelCondition(mCol, mProps[i]) /\ FuzzyCondition(mCol, mProps[j]))
            => /\ mResult # <<>>
               /\ mResult[1].match_type = EXACT_PREF_LABEL
               /\ mResult[1].prop = mProps[FirstPref(mCol, mProps)]
               /\ (FirstPref(mCol, mProps) = i => mResult[1].prop = mProps[i])
               /\ (mResult[1].prop = mProps[j] => PrefLabelCondition(mCol, mProps[j]))

\* C1's case: B comes first and matches only fuzzily, A is returned
C1_Witness ==
    /\ mPc = "matched"
    /\ Len(mProps) = 2
    /\ FuzzyCondition(mCol, mProps[1])
    /\ ~PrefLabelCondition(mCol, mProps[1])
    /\ PrefLabelCondition(mCol, mProps[2])
    /\ mResult = <<[prop |-> mProps[2], match_type |-> EXACT_PREF_LABEL,
                    matched_via |-> mProps[2].pref_label]>>

\* the candidate of highest confidence, the earliest one on a tie
MaxConfidenceWinner(c) ==
    c[CHOOSE i \in 1..Len(c) :
        /\ \A k \in 1..Len(c) :
              calculate_confidence_score(c[k].match_type)
                  <= calculate_confidence_score(c[i].match_type)
        /\ \A k \in 1..(i - 1) :
              calculate_confidence_score(c[k].match_type)
                  < calculate_confidence_score(c[i].match_type)]

\* every (tier, property) candidate that fires, in pipeline order
AllCandidates(col, props) ==
    Candidates(col, props,
               <<EXACT_PREF_LABEL, EXACT_LABEL, EXACT_ALT_LABEL, EXACT_HIDDEN_LABEL,
                 EXACT_LOCAL_NAME, PARTIAL, FUZZY>>)

\* C3: the cascade's winner is the candidate of highest confidence among all
\* the (tier, property) candidates that fire, ties broken by earliest
\* position; there is no winner exactly when no candidate fires.
C3_CascadeIsMaxConfidence ==
    mPc = "matched" =>
        IF AllCandidates(mCol, mProps) = <<>> THEN mResult = <<>>
        ELSE mResult = <<MaxConfidenceWinner(AllCandidates(mCol, mProps))>>

\* C3's case: candidates of different confidence fire, and the winner is not
\* the candidate of the first property in the list
C3_Witness ==
    /\ mPc = "matched"
    /\ Len(mProps) = 2
    /\ mResult # <<>>
    /\ mResult[1].prop = mProps[2]
    /\ \E k \in 1..Len(AllCandidates(mCol, mProps)) :
          /\ AllCandidates(mCol, mProps)[k].prop = mProps[1]
          /\ calculate_confidence_score(AllCandidates(mCol, mProps)[k].match_type)
                 < calculate_confidence_score(mResult[1].match_type)

----------------------------------------------------------------------------
(* Claims about the generator and its report, checked under Spec *)

\* the last call was generate_with_alignment_report and it returned a report
ReportFresh ==
    /\ lastCall.op = "generate_with_alignment_report"
    /\ lastCall.outcome = "ok"
    /\ alignment_report # <<>>

\* the column map of the generator's mapping
ColumnMap == mapping[1].sheets[1].columns

\* the classes whose CURIE the mapping's sheet names
MappingClasses ==
    {c \in {ontology.classes[i] : i \in 1..Len(ontology.classes)} :
        format_uri(c.uri) = mapping[1].sheets[1].row_resource.class}

ColumnSet == {get_column_names[i] : i \in 1..Len(get_column_names)}

NoDuplicates(seq) == \A i, j \in 1..Len(seq) : seq[i] = seq[j] => i = j

\* C2: matching a column against the datatype properties of any class yields
\* none or exactly one (property, match type) pair, and the column map of a
\* generated mapping holds at most one target property per column name.
C2_AtMostOneWinner ==
    /\ \A i \in 1..Len(ontology.classes), col \in ColumnSet :
          Len(match_column_to_property(
                  col, get_datatype_properties(ontology.classes[i].uri))) <= 1
    /\ mapping # <<>> =>
          /\ NoDuplicates(DictKeys(ColumnMap))
          /\ \A i \in 1..Len(ColumnMap) : ColumnMap[i].key \in ColumnSet

\* C2's case: a generated mapping maps a column for which several candidates fire
C2_Witness ==
    /\ mapping # <<>>
    /\ Len(ColumnMap) = 2
    /\ \E c \in MappingClasses, col \in ColumnSet :
          /\ DictHas(ColumnMap, col)
          /\ Len(AllCandidates(col, get_datatype_properties(c.uri))) >= 2

\* C4 as stated: a column is recorded as mapped only if the confidence of its
\* match is at least config.min_confidence.
C4_MinConfidence_AsStated ==
    mapping # <<>> =>
        \A i \in 1..Len(ColumnMap) :
            /\ DictHas(mapped_columns, ColumnMap[i].key)
            /\ DictGet(mapped_columns, ColumnMap[i].key).confidence
                   >= config.min_confidence

\* C5 as stated: in every report, after any sequence of calls, no column is
\* both mapped and unmapped, no column is twice in the unmapped list, and
\* mapped_columns + unmapped_columns = total_columns.
C5_RecordedOnce_AsStated ==
    ReportFresh =>
        /\ \A i \in 1..Len(unmapped_columns) :
              ~DictHas(mapped_columns, unmapped_columns[i])
        /\ NoDuplicates(unmapped_columns)
        /\ NoDuplicates([i \in 1..Len(alignment_report[1].unmapped_columns) |->
                            alignment_report[1].unmapped_columns[i].column_name])
        /\ alignment_report[1].statistics.mapped_columns
               + alignment_report[1].statistics.unmapped_columns
           = alignment_report[1].statistics.total_columns

\* C6: a generate call that repeats the successful generate call before it
\* (same target_class, same output_path) succeeds and returns an equal mapping.
C6_GenerateIdempotent ==
    [][(/\ lastCall.op = "generate"
        /\ lastCall.outcome = "ok"
        /\ calls' = calls + 1
        /\ lastCall'.op = "generate"
        /\ lastCall'.target_class = lastCall.target_class
        /\ lastCall'.output_path = lastCall.output_path)
       => (lastCall'.outcome = "ok" /\ mapping' = mapping)]_vars

\* C6's case: generate was repeated over a mapping with mapped columns
C6_Witness ==
    /\ repeated
    /\ lastCall.op = "generate"
    /\ mapping # <<>>
    /\ Len(ColumnMap) >= 1
    /\ Len(unmapped_columns) >= 2

Stats == alignment_report[1].statistics

\* C7: every mapped column's confidence is in exactly one of the four buckets,
\* and in every report the four bucket counts add up to mapped_columns.
C7_BucketsPartition ==
    alignment_report # <<>> =>
        /\ Stats.high_confidence_matches + Stats.medium_confidence_matches
             + Stats.low_confidence_matches + Stats.very_low_confidence_matches
           = Stats.mapped_columns
        /\ \A i \in 1..Len(mapped_columns) :
              HighConfidence(<<mapped_columns[i]>>) + MediumConfidence(<<mapped_columns[i]>>)
                + LowConfidence(<<mapped_columns[i]>>)
                + VeryLowConfidence(<<mapped_columns[i]>>) = 1

\* C7's case: a report with matches in more than one bucket, one at 0.8
C7_Witness ==
    /\ ReportFresh
    /\ Stats.high_confidence_matches >= 1
    /\ Stats.low_confidence_matches >= 1
    /\ \E i \in 1..Len(mapped_columns) : mapped_columns[i].value.confidence = 80

\* C8 as stated: the success rate is mapped_columns / total_columns, within
\* [0, 1], and generate_with_alignment_report over a data source without
\* columns (the class being resolvable) returns a report with total_columns = 0
\* and a success rate of 0.0.
C8_SuccessRate_AsStated ==
    /\ alignment_report # <<>> =>
          /\ Stats.mapping_success_rate.den > 0
          /\ Stats.mapping_success_rate.num * Stats.total_columns
                 = Stats.mapped_columns * Stats.mapping_success_rate.den
             \/ (Stats.total_columns = 0 /\ Stats.mapping_success_rate.num = 0)
          /\ 0 <= Stats.mapping_success_rate.num
          /\ Stats.mapping_success_rate.num <= Stats.mapping_success_rate.den
    /\ (/\ lastCall.op = "generate_with_alignment_report"
        /\ get_column_names = <<>>
        /\ TargetClass(lastCall.target_class) # <<>>)
       => /\ lastCall.outcome = "ok"
          /\ alignment_report # <<>>
          /\ Stats.total_columns = 0
          /\ Stats.mapping_success_rate = [num |-> 0, den |-> 1]

Report == alignment_report[1]

\* the weak matches of the report that carry the given suggestion
WeakMatchesWith(sg) ==
    {i \in 1..Len(Report.weak_matches) :
        /\ Report.weak_matches[i].suggestions = <<sg>>
        /\ Report.weak_matches[i].column_name = sg.suggested_label_value}

\* C9: every suggestion of a report belongs to a mapped column whose confidence
\* is below 0.8 and whose match type is not exact-pref-label; a column
\* "First_Name" facing a property with prefLabel "First Name" is mapped to it
\* as exact-pref-label with confidence 1.0, is no weak match and gets no
\* suggestion.
C9_SuggestionsOnlyForWeak ==
    ReportFresh =>
        /\ \A k \in 1..Len(Report.skos_enrichment_suggestions) :
              \E i \in WeakMatchesWith(Report.skos_enrichment_suggestions[k]) :
                  /\ Report.weak_matches[i].confidence_score < 80
                  /\ Report.weak_matches[i].match_type # EXACT_PREF_LABEL
                  /\ DictHas(mapped_columns, Report.weak_matches[i].column_name)
                  /\ DictGet(mapped_columns,
                             Report.weak_matches[i].column_name).confidence < 80
        /\ \A i \in 1..Len(Report.weak_matches) :
              /\ Report.weak_matches[i].confidence_score < 80
              /\ Report.weak_matches[i].match_type # EXACT_PREF_LABEL
        /\ (/\ sFirst_Name \in ColumnSet
            /\ \E q \in {get_datatype_properties(TargetClass(lastCall.target_class)[1].uri)[i] :
                           i \in 1..Len(get_datatype_properties(
                                            TargetClass(lastCall.target_class)[1].uri))} :
                  q.pref_label = sFirstSpName)
           => /\ DictHas(mapped_columns, sFirst_Name)
              /\ DictGet(mapped_columns, sFirst_Name).match_type = EXACT_PREF_LABEL
              /\ DictGet(mapped_columns, sFirst_Name).confidence = 100
              /\ DictGet(mapped_columns, sFirst_Name).prop.pref_label = sFirstSpName
              /\ \A i \in 1..Len(Report.weak_matches) :
                    Report.weak_matches[i].column_name # sFirst_Name
              /\ \A k \in 1..Len(Report.skos_enrichment_suggestions) :
                    Report.skos_enrichment_suggestions[k].suggested_label_value
                        # sFirst_Name

\* C9's case: "First_Name" is mapped by prefLabel while another column of the
\* same report is a weak match with a suggestion
C9_Witness ==
    /\ ReportFresh
    /\ DictHas(mapped_columns, sFirst_Name)
    /\ DictGet(mapped_columns, sFirst_Name).match_type = EXACT_PREF_LABEL
    /\ Len(Report.skos_enrichment_suggestions) >= 1

\* the label type C10 expects for a match type, "" for no suggestion
ExpectedLabelType(match_type) ==
    IF match_type \in {"partial", "fuzzy"} THEN "skos:hiddenLabel"
    ELSE IF match_type = "exact-local-name" THEN "skos:altLabel"
    ELSE ""

\* a suggestion list is what C10 expects for the column, property and match type
AsExpected(suggestions, col_name, uri, match_type) ==
    IF ExpectedLabelType(match_type) = "" THEN suggestions = <<>>
    ELSE /\ Len(suggestions) = 1
         /\ suggestions[1].suggested_label_type = ExpectedLabelType(match_type)
         /\ suggestions[1].suggested_label_value = col_name
         /\ suggestions[1].property_uri = uri
         /\ suggestions[1].turtle_snippet
                = format_uri(uri) \o <<" ">> \o <<ExpectedLabelType(match_type)>>
                  \o <<" ", "\"">> \o col_name \o <<"\"", " ", ".">>

\* C10: every mapped column with confidence < 0.8 has a weak match whose
\* suggestions are determined by the match type alone: one skos:hiddenLabel
\* suggestion for partial and fuzzy, one skos:altLabel suggestion for
\* exact-local-name, none otherwise, with the column name as value and
\* '<property> <label type> "<column name>" .' as snippet.
C10_SuggestionByMatchType ==
    ReportFresh =>
        /\ \A i \in 1..Len(mapped_columns) :
              /\ mapped_columns[i].value.confidence < 80
                 => \E k \in 1..Len(Report.weak_matches) :
                       /\ Report.weak_matches[k].column_name = mapped_columns[i].key
                       /\ Report.weak_matches[k].match_type
                              = mapped_columns[i].value.match_type
                       /\ AsExpected(Report.weak_matches[k].suggestions,
                                     mapped_columns[i].key,
                                     mapped_columns[i].value.prop.uri,
                                     mapped_columns[i].value.match_type)
              /\ \A t \in {TierOrder[n] : n \in 1..Len(TierOrder)} :
                    AsExpected(generate_skos_suggestion(mapped_columns[i].key,
                                                        mapped_columns[i].value.prop, t),
                               mapped_columns[i].key, mapped_columns[i].value.prop.uri, t)
        /\ \A k \in 1..Len(Report.weak_matches) :
              AsExpected(Report.weak_matches[k].suggestions,
                         Report.weak_matches[k].column_name,
                         Report.weak_matches[k].matched_property,
                         Report.weak_matches[k].match_type)

\* C10's case: a report with a fuzzy weak match that carries its one
\* skos:hiddenLabel suggestion
C10_Witness ==
    /\ ReportFresh
    /\ \E k \in 1..Len(Report.weak_matches) :
          /\ Report.weak_matches[k].match_type = FUZZY
          /\ Report.weak_matches[k].confidence_score = 40
          /\ Len(Report.weak_matches[k].suggestions) = 1
          /\ Report.weak_matches[k].suggestions[1].suggested_label_type
                 = "skos:hiddenLabel"
          /\ Report.weak_matches[k].suggestions[1].suggested_label_value = sName

----------------------------------------------------------------------------
(* Claims about column-name normalisation, checked under MatchSpec *)

\* the normalized form of a name: lowercased, spaces and underscores removed
NormalForm(s) == SelectSeq(Lower(s), LAMBDA c : c \notin {"_", " "})

\* spellings of column names, several with the same normalized form
NameVariants == {sAB, sA_B, sAspB, sA, sUnderscore, sSpace}

ExactTypes ==
    {EXACT_PREF_LABEL, EXACT_LABEL, EXACT_ALT_LABEL, EXACT_HIDDEN_LABEL,
     EXACT_LOCAL_NAME}

\* C11: two column names with the same normalized form resolve, against the
\* same property list, to the same result: the same property with the same
\* match type, or none for both.
C11_NormalizedNamesAgree ==
    mPc = "matched" =>
        /\ mResult = match_column_to_property(mCol, mProps)
        /\ \A other \in NameVariants :
              NormalForm(other) = NormalForm(mCol)
                  => match_column_to_property(other, mProps) = mResult

\* C11's case: "A_b" is matched by an exact alt label, and "A b" and "ab" are
\* other spellings of it
C11_Witness ==
    /\ mPc = "matched"
    /\ mCol = sA_B
    /\ mResult # <<>>
    /\ mResult[1].match_type = EXACT_ALT_LABEL
    /\ NormalForm(sAspB) = NormalForm(mCol)
    /\ NormalForm(sAB) = NormalForm(mCol)
    /\ match_column_to_property(sAspB, mProps) = mResult

----------------------------------------------------------------------------
(* Claims about columns without a match, checked under Spec *)

NoMatchReason == "No matching property found in ontology"

\* C12: a column that no property of the class matches makes no call fail; it
\* is in the unmapped list and not in the column map, and its UnmappedColumn
\* record in a report carries the reason "No matching property found in
\* ontology"; with zero properties the matcher returns none.
C12_NoMatchIsNormal ==
    /\ \A col \in ColumnSet : match_column_to_property(col, <<>>) = <<>>
    /\ (/\ lastCall.op \in {"generate", "generate_with_alignment_report"}
        /\ TargetClass(lastCall.target_class) # <<>>
        /\ get_column_names # <<>>)
       => lastCall.outcome = "ok"
    /\ mapping # <<>> =>
          \A c \in MappingClasses, col \in ColumnSet :
              match_column_to_property(col, get_datatype_properties(c.uri)) = <<>>
                  => /\ \E i \in 1..Len(unmapped_columns) : unmapped_columns[i] = col
                     /\ ~DictHas(ColumnMap, col)
                     /\ ReportFresh =>
                           \E k \in 1..Len(Report.unmapped_columns) :
                               /\ Report.unmapped_columns[k].column_name = col
                               /\ Report.unmapped_columns[k].reason = NoMatchReason
    /\ ReportFresh =>
          \A k \in 1..Len(Report.unmapped_columns) :
              Report.unmapped_columns[k].reason = NoMatchReason

\* C12's case: the class of a fresh report has no datatype property at all,
\* and both columns of the sheet are reported unmapped
C12_Witness ==
    /\ ReportFresh
    /\ calls = 1
    /\ \E c \in MappingClasses : get_datatype_properties(c.uri) = <<>>
    /\ Len(get_column_names) = 2
    /\ ColumnMap = <<>>
    /\ Len(Report.unmapped_columns) = 2
    /\ Report.unmapped_columns[2].column_name = get_column_names[2]
    /\ Report.unmapped_columns[2].reason = NoMatchReason

----------------------------------------------------------------------------
(* Claims about target-class resolution, checked under Spec *)

\* the least index of a sequence whose element satisfies Test, 0 if none
FirstIndex(seq, Test(_)) ==
    IF \E i \in 1..Len(seq) : Test(seq[i])
    THEN CHOOSE i \in 1..Len(seq) :
            Test(seq[i]) /\ \A j \in 1..(i - 1) : ~Test(seq[j])
    ELSE 0

HasSuffix(s, suffix) ==
    /\ Len(suffix) <= Len(s)
    /\ SubSeq(s, Len(s) - Len(suffix) + 1, Len(s)) = suffix

LabelIs(identifier, c) == c.label = identifier

UriIs(identifier, c) ==
    \/ c.uri = identifier
    \/ HasSuffix(c.uri, <<"#">> \o identifier)
    \/ HasSuffix(c.uri, <<"/">> \o identifier)

\* the class the resolution order of C13 names for an argument, <<>> if none
ExpectedClass(target_class) ==
    IF target_class # <<>>
    THEN IF FirstIndex(ontology.classes, LAMBDA c : LabelIs(target_class, c)) > 0
         THEN <<ontology.classes[FirstIndex(ontology.classes,
                                            LAMBDA c : LabelIs(target_class, c))]>>
         ELSE IF FirstIndex(ontology.classes, LAMBDA c : UriIs(target_class, c)) > 0
         THEN <<ontology.classes[FirstIndex(ontology.classes,
                                            LAMBDA c : UriIs(target_class, c))]>>
         ELSE <<>>
    ELSE IF ontology.suggestions # <<>> THEN <<ontology.suggestions[1]>>
         ELSE IF ontology.classes # <<>> THEN <<ontology.classes[1]>>
         ELSE <<>>

LastWasGeneration == lastCall.op \in {"generate", "generate_with_alignment_report"}

\* C13: a generation resolves its class by label before URI when an identifier
\* is given, and by the first filename suggestion before the first class when
\* none is given; it raises the resolution error exactly when none of these
\* steps finds a class, and the mapping it returns is for the resolved class.
C13_ResolutionOrder ==
    LastWasGeneration =>
        /\ lastCall.outcome = "ValueError" <=> ExpectedClass(lastCall.target_class) = <<>>
        /\ lastCall.outcome = "ok" =>
              /\ ExpectedClass(lastCall.target_class) # <<>>
              /\ mapping[1].sheets[1].row_resource.class
                     = format_uri(ExpectedClass(lastCall.target_class)[1].uri)

\* C13's case: "P" is the label of one class and the URI suffix of another,
\* and the mapping is for the class with the label
C13_Witness ==
    /\ lastCall.op = "generate"
    /\ lastCall.outcome = "ok"
    /\ lastCall.target_class = sP
    /\ \E i, j \in 1..Len(ontology.classes) :
          /\ i # j
          /\ UriIs(sP, ontology.classes[i]) /\ ~LabelIs(sP, ontology.classes[i])
          /\ LabelIs(sP, ontology.classes[j])
          /\ mapping[1].sheets[1].row_resource.class = format_uri(ontology.classes[j].uri)
          /\ format_uri(ontology.classes[j].uri) # format_uri(ontology.classes[i].uri)

\* C14: a generation whose target class cannot be resolved raises to the
\* caller and leaves the mapping, the mapped and unmapped column tracking and
\* the alignment report as they were before the call.
C14_ResolutionFailureIsFatal ==
    [][(/\ calls' = calls + 1
        /\ lastCall'.op \in {"generate", "generate_with_alignment_report"}
        /\ ExpectedClass(lastCall'.target_class) = <<>>)
       => (/\ lastCall'.outcome = "ValueError"
           /\ mapping' = mapping
           /\ mapped_columns' = mapped_columns
           /\ unmapped_columns' = unmapped_columns
           /\ alignment_report' = alignment_report)]_vars

\* C14's case: a generation failed to resolve its class on a generator that
\* holds a mapping, tracking and a report from the call before
C14_Witness ==
    /\ calls = 2
    /\ lastCall.op \in {"generate", "generate_with_alignment_report"}
    /\ lastCall.outcome = "ValueError"
    /\ ExpectedClass(lastCall.target_class) = <<>>
    /\ mapping # <<>>
    /\ alignment_report # <<>>
    /\ mapped_columns # <<>>
    /\ unmapped_columns # <<>>

----------------------------------------------------------------------------
(* Claims about SemanticSimilarityMatcher, checked under SemSpec *)

Called == semCall # <<>>

TheCall == semCall[1]

\* the scores of the last call, as match computes them
BaseScores ==
    get_base_scores(sem[1], TheCall.column, TheCall.properties, TheCall.embedded)

FinalScores ==
    apply_context_boosts(sem[1], BaseScores, TheCall.properties, TheCall.context)

\* C15 as stated: for the column "DOB" and a property whose only label is
\* "birth date", lexical scoring yields 1.0 and, the threshold being at most
\* 1.0, match returns that property as semantic-similarity with confidence 1.0.
C15_AbbreviationScenario_AsStated ==
    (/\ Called
     /\ sem[1].enabled
     /\ sem[1].embeddings_matcher = "none"
     /\ sem[1].threshold <= ONE
     /\ TheCall.column = sDOBcol
     /\ TheCall.properties = <<spBirthDate>>
     /\ TheCall.context = <<>>)
    => /\ DictGet(get_lexical_scores(sDOBcol, <<spBirthDate>>), spBirthDate.uri) = ONE
       /\ TheCall.result # <<>>
       /\ TheCall.result[1].property = spBirthDate
       /\ TheCall.result[1].match_type = SEMANTIC_SIMILARITY
       /\ TheCall.result[1].confidence = ONE

\* the final score match reads for a property of the call
FinalOf(prop) == DictGetOr(FinalScores, prop.uri, 0)

\* C16: match returns the property with the highest final score among those at
\* or above the threshold, the earliest of the list on a tie, with that score
\* as confidence and match type semantic-similarity; it returns none when the
\* matcher is disabled, the list is empty or no property reaches the threshold.
C16_HighestAboveThreshold ==
    Called =>
        /\ TheCall.result # <<>> =>
              \E i \in 1..Len(TheCall.properties) :
                  /\ TheCall.result[1].property = TheCall.properties[i]
                  /\ TheCall.result[1].confidence = FinalOf(TheCall.properties[i])
                  /\ TheCall.result[1].match_type = SEMANTIC_SIMILARITY
                  /\ FinalOf(TheCall.properties[i]) >= sem[1].threshold
                  /\ \A j \in 1..Len(TheCall.properties) :
                        /\ FinalOf(TheCall.properties[j]) <= FinalOf(TheCall.properties[i])
                        /\ j < i => FinalOf(TheCall.properties[j])
                                        < FinalOf(TheCall.properties[i])
        /\ (\/ ~sem[1].enabled
            \/ TheCall.properties = <<>>
            \/ \A j \in 1..Len(TheCall.properties) :
                  FinalOf(TheCall.properties[j]) < sem[1].threshold)
           => TheCall.result = <<>>

\* C16's case: two properties tie at a final score above the threshold and the
\* first of the list is returned
C16_Witness ==
    /\ Called
    /\ Len(TheCall.properties) = 2
    /\ FinalOf(TheCall.properties[1]) = FinalOf(TheCall.properties[2])
    /\ FinalOf(TheCall.properties[1]) >= sem[1].threshold
    /\ TheCall.result # <<>>
    /\ TheCall.result[1].property = TheCall.properties[1]

\* the base score match reads for a property of the call
BaseOf(prop) == DictGetOr(BaseScores, prop.uri, 0)

\* prop has the domain of a property that the context of the call holds as
\* already matched, as the reasoner of the matcher knows the ontology
SharesMatchedDomain(prop) ==
    /\ TheCall.context # <<>>
    /\ sem[1].reasoner # <<>>
    /\ prop.domain # <<>>
    /\ \E i \in 1..Len(TheCall.context[1].matched_properties) :
          \E j \in 1..Len(sem[1].reasoner[1].properties) :
              /\ sem[1].reasoner[1].properties[j].uri
                     = TheCall.context[1].matched_properties[i].value
              /\ sem[1].reasoner[1].properties[j].domain = prop.domain

\* C17: the context boosts are additive and saturate at 1.0: every property of
\* a call has base <= final <= 1.0, its final score is min(1.0, base + domain
\* boost + co-occurrence boost) when it shares the domain of a property already
\* matched in the context, and its base score otherwise; without a context, with
\* nothing matched yet or without a reasoner every final score is the base score.
C17_BoostsSaturate ==
    Called =>
        \A i \in 1..Len(TheCall.properties) :
            LET prop == TheCall.properties[i] IN
            /\ BaseOf(prop) >= 0 /\ BaseOf(prop) <= ONE
            /\ BaseOf(prop) <= FinalOf(prop)
            /\ FinalOf(prop) <= ONE
            /\ FinalOf(prop) =
                   IF SharesMatchedDomain(prop)
                   THEN Saturate(BaseOf(prop) + sem[1].domain_boost
                                     + sem[1].cooccurrence_boost)
                   ELSE BaseOf(prop)
            /\ (\/ TheCall.context = <<>>
                \/ TheCall.context[1].matched_properties = <<>>
                \/ sem[1].reasoner = <<>>) => FinalOf(prop) = BaseOf(prop)

\* C17's case: one call in which a boost is cut off at 1.0, another property
\* is boosted in full, and the boosted score is what match returns
C17_Witness ==
    /\ Called
    /\ \E i \in 1..Len(TheCall.properties) :
          /\ SharesMatchedDomain(TheCall.properties[i])
          /\ BaseOf(TheCall.properties[i]) + sem[1].domain_boost > ONE
          /\ FinalOf(TheCall.properties[i]) = ONE
    /\ \E i \in 1..Len(TheCall.properties) :
          /\ SharesMatchedDomain(TheCall.properties[i])
          /\ FinalOf(TheCall.properties[i])
                 = BaseOf(TheCall.properties[i]) + Hundredths(15)
    /\ TheCall.result # <<>>
    /\ TheCall.result[1].confidence = ONE

\* the best lexical score of the properties of the call
RECURSIVE MaxLexical(_, _)
MaxLexical(scores, i) ==
    IF i > Len(scores) THEN 0
    ELSE IF scores[i].value > MaxLexical(scores, i + 1) THEN scores[i].value
         ELSE MaxLexical(scores, i + 1)

\* C18: when initialising the embedding model raises, constructing the matcher
\* does not raise, the matcher is left without an embedding model, and every
\* later match call works on the lexical scores alone: it returns a property
\* whenever the lexical score of some property reaches the threshold, with the
\* best lexical score as confidence when there is no context.
C18_EmbeddingDegradation ==
    /\ sem[1].outcome = "ok"
    /\ sem[1].init_raised =>
          /\ sem[1].enabled
          /\ sem[1].embeddings_matcher = "none"
          /\ Called =>
                LET lexical == get_lexical_scores(TheCall.column, TheCall.properties) IN
                /\ TheCall.embedded = <<>>
                /\ \A i \in 1..Len(TheCall.properties) :
                      BaseOf(TheCall.properties[i])
                          = DictGetOr(lexical, TheCall.properties[i].uri, 0)
                /\ MaxLexical(lexical, 1) >= sem[1].threshold
                      => /\ TheCall.result # <<>>
                         /\ TheCall.result[1].confidence >= MaxLexical(lexical, 1)
                /\ (TheCall.context = <<>> /\ TheCall.result # <<>>)
                      => TheCall.result[1].confidence = MaxLexical(lexical, 1)

\* C18's case: the embedding model failed to initialise and a later call
\* returns a property on its lexical score
C18_Witness ==
    /\ sem[1].init_raised
    /\ Called
    /\ TheCall.context = <<>>
    /\ TheCall.result # <<>>
    /\ TheCall.result[1].confidence
           = DictGetOr(get_lexical_scores(TheCall.column, TheCall.properties),
                       TheCall.result[1].property.uri, 0)

----------------------------------------------------------------------------
(* Claims about create_default_pipeline, checked under FactorySpec *)

Built == fPipeline # <<>>

\* the class names of the matchers of the pipeline, in order
PipelineNames == [i \in 1..Len(fPipeline[1]) |-> fPipeline[1][i].name]

\* the canonical order, by the matcher classes
CanonicalOrder ==
    <<"ExactPrefLabelMatcher", "ExactRdfsLabelMatcher", "ExactAltLabelMatcher",
      "ExactHiddenLabelMatcher", "ExactLocalNameMatcher",
      "PropertyHierarchyMatcher", "OWLCharacteristicsMatcher",
      "RestrictionBasedMatcher", "SKOSRelationsMatcher",
      "HistoryAwareMatcher", "SemanticSimilarityMatcher",
      "DataTypeInferenceMatcher", "StructuralMatcher",
      "GraphReasoningMatcher", "PartialStringMatcher", "FuzzyStringMatcher">>

\* the canonical order with the two optional matchers after SKOS-relations
ExtendedOrder ==
    SubSeq(CanonicalOrder, 1, 9)
    \o <<"ProbabilisticGraphMatcher", "OntologyValidationMatcher">>
    \o SubSeq(CanonicalOrder, 10, 16)

\* s from index i on is a subsequence of t from index j on
RECURSIVE SubsequenceFrom(_, _, _, _)
SubsequenceFrom(s, i, t, j) ==
    IF i > Len(s) THEN TRUE
    ELSE IF j > Len(t) THEN FALSE
    ELSE IF s[i] = t[j] THEN SubsequenceFrom(s, i + 1, t, j + 1)
    ELSE SubsequenceFrom(s, i, t, j + 1)

IsSubsequence(s, t) == SubsequenceFrom(s, 1, t, 1)

ExactFirstFallbackLast ==
    /\ Len(PipelineNames) >= 7
    /\ SubSeq(PipelineNames, 1, 5) = SubSeq(CanonicalOrder, 1, 5)
    /\ SubSeq(PipelineNames, Len(PipelineNames) - 1, Len(PipelineNames))
           = SubSeq(CanonicalOrder, 15, 16)
    /\ \A i \in 6..(Len(PipelineNames) - 2) :
          PipelineNames[i] \notin
              {CanonicalOrder[k] : k \in 1..5} \cup {CanonicalOrder[k] : k \in 15..16}

InPipeline(name) == \E i \in 1..Len(PipelineNames) : PipelineNames[i] = name

\* C20 as stated: without an ontology_analyzer none of the hierarchy,
\* OWL-characteristics, restriction-based and SKOS-relations matchers is in
\* the pipeline, and without a reasoner the graph-reasoning matcher is not,
\* whatever the flags are.
C20_MissingCollaborator_AsStated ==
    Built =>
        /\ ~fArgs[1].ontology_analyzer =>
              /\ ~InPipeline("PropertyHierarchyMatcher")
              /\ ~InPipeline("OWLCharacteristicsMatcher")
              /\ ~InPipeline("RestrictionBasedMatcher")
              /\ ~InPipeline("SKOSRelationsMatcher")
        /\ ~fArgs[1].reasoner => ~InPipeline("GraphReasoningMatcher")

\* the matchers create_default_pipeline constructs with the ontology_analyzer
NeedAnalyzer ==
    {"PropertyHierarchyMatcher", "OWLCharacteristicsMatcher",
     "RestrictionBasedMatcher", "ProbabilisticGraphMatcher",
     "OntologyValidationMatcher"}

\* the matchers it constructs with the reasoner
NeedReasoner == {"GraphReasoningMatcher", "ProbabilisticGraphMatcher"}

\* C20, amended: without an ontology_analyzer none of the hierarchy,
\* OWL-characteristics and restriction-based matchers is in the pipeline, and
\* without a reasoner the graph-reasoning matcher is not, whatever the flags
\* are; the SKOS-relations matcher, which is constructed without a
\* collaborator, is in the pipeline exactly when use_skos_relations is set; no
\* matcher is ever constructed with an absent collaborator, and the pipeline
\* is built in every case.
C20_MissingCollaborator ==
    Built =>
        /\ ~fArgs[1].ontology_analyzer =>
              /\ ~InPipeline("PropertyHierarchyMatcher")
              /\ ~InPipeline("OWLCharacteristicsMatcher")
              /\ ~InPipeline("RestrictionBasedMatcher")
        /\ ~fArgs[1].reasoner => ~InPipeline("GraphReasoningMatcher")
        /\ InPipeline("SKOSRelationsMatcher") <=> fArgs[1].use_skos_relations
        /\ \A i \in 1..Len(PipelineNames) :
              /\ PipelineNames[i] \in NeedAnalyzer => fArgs[1].ontology_analyzer
              /\ PipelineNames[i] \in NeedReasoner => fArgs[1].reasoner
        /\ ExactFirstFallbackLast

\* C20's case: every flag of the ontology and graph matchers is set, neither
\* collaborator is supplied, and the pipeline is built without them
C20_Witness ==
    /\ Built
    /\ ~fArgs[1].ontology_analyzer /\ ~fArgs[1].reasoner
    /\ fArgs[1].use_hierarchy /\ fArgs[1].use_owl_characteristics
    /\ fArgs[1].use_restrictions /\ fArgs[1].use_skos_relations
    /\ fArgs[1].use_graph_reasoning
    /\ PipelineNames =
           SubSeq(CanonicalOrder, 1, 5) \o SubSeq(CanonicalOrder, 9, 13)
           \o SubSeq(CanonicalOrder, 15, 16)

----------------------------------------------------------------------------
(* Further claims about MappingGenerator, checked under Spec *)

\* the last call was a generation that returned a mapping
GeneratedOk == LastWasGeneration /\ lastCall.outcome = "ok"

\* the class the mapping of that generation is for
GeneratedClass == ExpectedClass(lastCall.target_class)[1]

\* the object mappings of the sheet, a dict from name to entry
SheetObjects == mapping[1].sheets[1].objects

\* the properties of the ontology of one kind with one domain
PropsOf(kind, class_uri) ==
    {ontology.properties[i] : i \in
        {k \in 1..Len(ontology.properties) :
            /\ ontology.properties[k].kind = kind
            /\ ontology.properties[k].domain = class_uri}}

\* the range of p is a class of the ontology and some column matches a
\* datatype property of that class
HasLinkedColumns(p) ==
    /\ p.range_type # <<>>
    /\ \E i \in 1..Len(ontology.classes) : ontology.classes[i].uri = p.range_type
    /\ \E i \in 1..Len(spreadsheet.columns) :
          match_column_to_property(spreadsheet.columns[i],
                                   get_datatype_properties(p.range_type)) # <<>>

\* the sheet carries an object mapping for the object property p
CarriesObjectFor(p) ==
    \E i \in 1..Len(SheetObjects) :
        /\ SheetObjects[i].value.predicate = format_uri(p.uri)
        /\ SheetObjects[i].value.class = format_uri(p.range_type)

\* an entry of the object mappings lists (column, property) pairs only, each a
\* column of the sheet with a datatype property of the entry's range class
OneLevel(entry) ==
    /\ DOMAIN entry = {"predicate", "class", "iri_template", "properties"}
    /\ entry.properties # <<>>
    /\ \A i \in 1..Len(entry.properties) :
          /\ DOMAIN entry.properties[i] = {"column", "as"}
          /\ \E k \in 1..Len(spreadsheet.columns) :
                entry.properties[i].column = spreadsheet.columns[k]
          /\ \E p \in PropsOf("object", GeneratedClass.uri) :
                /\ entry.predicate = format_uri(p.uri)
                /\ entry.class = format_uri(p.range_type)
                /\ \E q \in PropsOf("datatype", p.range_type) :
                      entry.properties[i].as = format_uri(q.uri)

\* the key of the entry of p: its label or, without one, its local name
ObjectName(p) == IF p.label # <<>> THEN p.label ELSE LocalName(p.uri)

\* a later object property of the class takes the entry of p: it has the same
\* name and linked columns of its own
Displaced(p) ==
    \E i, j \in 1..Len(ontology.properties) :
        /\ i < j
        /\ ontology.properties[i] = p
        /\ ontology.properties[j] \in PropsOf("object", GeneratedClass.uri)
        /\ ObjectName(ontology.properties[j]) = ObjectName(p)
        /\ HasLinkedColumns(ontology.properties[j])

\* C21 as stated: after a generation the sheet carries an object mapping for
\* an object property p of the target class exactly when
\* auto_detect_relationships is on, the range of p is a known class and some
\* column matches a datatype property of that class; every entry is one level
\* deep.
C21_LinkedObjects_AsStated ==
    GeneratedOk =>
        /\ \A p \in PropsOf("object", GeneratedClass.uri) :
              CarriesObjectFor(p)
                  <=> (config.auto_detect_relationships /\ HasLinkedColumns(p))
        /\ \A i \in 1..Len(SheetObjects) : OneLevel(SheetObjects[i].value)

\* C21, what holds: the same, except that of several object properties with
\* the same name only the last with linked columns is carried; every generation
\* over classes that reference each other ends with entries one level deep.
C21_LinkedObjects ==
    GeneratedOk =>
        /\ \A p \in PropsOf("object", GeneratedClass.uri) :
              CarriesObjectFor(p)
                  <=> (/\ config.auto_detect_relationships
                       /\ HasLinkedColumns(p)
                       /\ ~Displaced(p))
        /\ \A i \in 1..Len(SheetObjects) : OneLevel(SheetObjects[i].value)

\* C21's case: the target class has an object property to a class that has an
\* object property back to it, and the sheet carries the one-level entry
C21_Witness ==
    /\ GeneratedOk
    /\ \E p \in PropsOf("object", GeneratedClass.uri) :
          /\ p.range_type # GeneratedClass.uri
          /\ \E b \in PropsOf("object", p.range_type) :
                b.range_type = GeneratedClass.uri
          /\ CarriesObjectFor(p)
    /\ \A i \in 1..Len(SheetObjects) : OneLevel(SheetObjects[i].value)

\* the in-memory results of the generator
InMemory == <<mapping, alignment_report, mapped_columns, unmapped_columns>>

\* C22 as stated: a write that fails inside save_yaml, save_json or
\* export_alignment_report surfaces the error and leaves the mapping, the
\* alignment report and the mapped and unmapped column tracking as they were
\* before the call.
C22_FailedWrite_AsStated ==
    [][(/\ calls' = calls + 1
        /\ lastCall'.op \in {"save_yaml", "save_json", "export_alignment_report"}
        /\ lastCall'.outcome = "OSError")
       => InMemory' = InMemory]_vars

\* C22, what holds: the same for save_json, for export_alignment_report and
\* for a save_yaml to the output path the mapping was generated for; the files
\* are as before, and a save_yaml to another path still holds a mapping for
\* the same columns after the failed write.
C22_FailedWrite ==
    [][(/\ calls' = calls + 1
        /\ lastCall'.op \in {"save_yaml", "save_json", "export_alignment_report"}
        /\ lastCall'.outcome = "OSError")
       => /\ files' = files
          /\ alignment_report' = alignment_report
          /\ mapping' # <<>>
          /\ (\/ lastCall'.op # "save_yaml"
              \/ (output_path.set /\ output_path.path = lastCall'.output_path))
                => InMemory' = InMemory]_vars

\* C22's case: a write failed in save_json or export_alignment_report on a
\* generator that holds a mapping, a report and column tracking
C22_Witness ==
    /\ lastCall.op \in {"save_json", "export_alignment_report"}
    /\ lastCall.outcome = "OSError"
    /\ mapping # <<>>
    /\ alignment_report # <<>>
    /\ mapped_columns # <<>>
    /\ unmapped_columns # <<>>
    /\ files = <<>>

\* the entries of the mapped-column tracking with a confidence below 0.8, in
\* the order of the tracking
WeakTracked == SelectSeq(mapped_columns, LAMBDA e : e.value.confidence < 80)

\* the weak matches of the report that carry a suggestion, in order
WithSuggestion == SelectSeq(Report.weak_matches, LAMBDA w : w.suggestions # <<>>)

\* C23: in every alignment report weak_matches holds exactly one record per
\* mapped column with confidence < 0.8, in the order of the mapped columns, so
\* that its length is medium + low + very-low; each record carries zero or one
\* suggestion, and skos_enrichment_suggestions is exactly the sequence of the
\* suggestions attached to the weak matches, in the same order.
C23_ReportConsistency ==
    ReportFresh =>
        /\ Len(Report.weak_matches) = Len(WeakTracked)
        /\ \A i \in 1..Len(Report.weak_matches) :
              /\ Report.weak_matches[i].column_name = WeakTracked[i].key
              /\ Report.weak_matches[i].matched_property = WeakTracked[i].value.prop.uri
              /\ Report.weak_matches[i].confidence_score = WeakTracked[i].value.confidence
              /\ Report.weak_matches[i].confidence_score < 80
              /\ Len(Report.weak_matches[i].suggestions) <= 1
        /\ NoDuplicates([i \in 1..Len(Report.weak_matches) |->
                            Report.weak_matches[i].column_name])
        /\ Len(Report.weak_matches)
               = Stats.medium_confidence_matches + Stats.low_confidence_matches
                     + Stats.very_low_confidence_matches
        /\ Len(Report.skos_enrichment_suggestions) = Len(WithSuggestion)
        /\ \A k \in 1..Len(WithSuggestion) :
              Report.skos_enrichment_suggestions[k] = WithSuggestion[k].suggestions[1]

\* C23's case: a report with two weak matches, each with its own suggestion
C23_Witness ==
    /\ ReportFresh
    /\ Len(Report.weak_matches) = 2
    /\ Len(Report.skos_enrichment_suggestions) = 2
    /\ Report.skos_enrichment_suggestions[1] # Report.skos_enrichment_suggestions[2]
    /\ Report.skos_enrichment_suggestions[1].suggested_label_value
           = Report.weak_matches[1].column_name
    /\ Stats.medium_confidence_matches + Stats.low_confidence_matches
           + Stats.very_low_confidence_matches = 2

\* some generate call has succeeded on the generator, directly or inside
\* generate_with_alignment_report
HasGenerated == succeeded \cap {"generate", "generate_with_alignment_report"} # {}

\* some generate_with_alignment_report call has succeeded
HasReported == "generate_with_alignment_report" \in succeeded

\* C24: save_yaml and save_json raise ValueError and write nothing whenever no
\* generate call has succeeded on the generator; export_alignment_report and
\* print_alignment_summary raise ValueError whenever no
\* generate_with_alignment_report call has succeeded; after a successful
\* generate_with_alignment_report none of the four raises ValueError.
C24_CallOrdering ==
    [][calls' = calls + 1 =>
          /\ (lastCall'.op \in {"save_yaml", "save_json"} /\ ~HasGenerated)
                => (lastCall'.outcome = "ValueError" /\ files' = files)
          /\ (lastCall'.op \in {"export_alignment_report", "print_alignment_summary"}
              /\ ~HasReported)
                => (lastCall'.outcome = "ValueError" /\ files' = files)
          /\ (lastCall'.op \in {"save_yaml", "save_json", "export_alignment_report",
                                "print_alignment_summary"}
              /\ HasReported)
                => lastCall'.outcome # "ValueError"]_vars

\* C24's case: generate succeeded but generate_with_alignment_report never
\* did, and the export raised ValueError
C24_Witness ==
    /\ "generate" \in succeeded
    /\ ~HasReported
    /\ lastCall.op = "export_alignment_report"
    /\ lastCall.outcome = "ValueError"
    /\ mapping # <<>>
    /\ files = <<>>

\* C25: with exact-local-name at confidence 0.80 and the weak-match test
\* confidence < 0.8, an exact-local-name match is never a weak match: no
\* report carries a skos:altLabel suggestion, and every suggestion of every
\* report is a skos:hiddenLabel suggestion of a partial or fuzzy weak match.
C25_NoAltLabelSuggestion ==
    alignment_report # <<>> =>
        /\ calculate_confidence_score(EXACT_LOCAL_NAME) = 80
        /\ \A i \in 1..Len(Report.weak_matches) :
              /\ Report.weak_matches[i].match_type # EXACT_LOCAL_NAME
              /\ \A k \in 1..Len(Report.weak_matches[i].suggestions) :
                    /\ Report.weak_matches[i].match_type \in {PARTIAL, FUZZY}
                    /\ Report.weak_matches[i].suggestions[k].suggested_label_type
                           = "skos:hiddenLabel"
        /\ \A k \in 1..Len(Report.skos_enrichment_suggestions) :
              /\ Report.skos_enrichment_suggestions[k].suggested_label_type
                     = "skos:hiddenLabel"
              /\ Report.skos_enrichment_suggestions[k].suggested_label_type
                     # "skos:altLabel"
              /\ \E i \in 1..Len(Report.weak_matches) :
                    /\ Report.weak_matches[i].suggestions
                           = <<Report.skos_enrichment_suggestions[k]>>
                    /\ Report.weak_matches[i].match_type \in {PARTIAL, FUZZY}

\* C25's case: a report over a column mapped by exact-local-name at 0.80,
\* which is no weak match, beside a weak match with its hiddenLabel suggestion
C25_Witness ==
    /\ ReportFresh
    /\ \E i \in 1..Len(mapped_columns) :
          /\ mapped_columns[i].value.match_type = EXACT_LOCAL_NAME
          /\ mapped_columns[i].value.confidence = 80
          /\ \A k \in 1..Len(Report.weak_matches) :
                Report.weak_matches[k].column_name # mapped_columns[i].key
    /\ Len(Report.skos_enrichment_suggestions) >= 1

\* a save_yaml call has just written its file
SavedYaml == calls' = calls + 1 /\ lastCall'.op = "save_yaml" /\ lastCall'.outcome = "ok"

\* the sheet of the mapping that call wrote
WrittenSheet == DictGet(files', lastCall'.output_path[1]).sheets[1]

\* the class a mapping is for has a label, under which the ontology finds it
FoundByLabel(m) ==
    /\ SheetClass(m) # <<>>
    /\ SheetClass(m)[1].label # <<>>
    /\ get_class_by_label(SheetClass(m)[1].label) = <<SheetClass(m)[1]>>

\* C28 as stated: the mapping save_yaml writes has the row_resource class and
\* the column map of the mapping the generator held before the call, whatever
\* the mapping and the output file.
C28_SaveYamlKeepsClass_AsStated ==
    [][SavedYaml =>
          /\ WrittenSheet.row_resource.class = mapping[1].sheets[1].row_resource.class
          /\ WrittenSheet.columns = mapping[1].sheets[1].columns]_vars

\* C28, what holds: the same when the file is the output path the mapping was
\* generated for, or when the class of the mapping has a label under which
\* the ontology finds it; the sheet then differs in its source path at most.
C28_SaveYamlKeepsClass ==
    [][(/\ SavedYaml
        /\ \/ output_path.set /\ output_path.path = lastCall'.output_path
           \/ FoundByLabel(mapping[1]))
       => /\ WrittenSheet.row_resource = mapping[1].sheets[1].row_resource
          /\ WrittenSheet.columns = mapping[1].sheets[1].columns
          /\ WrittenSheet.objects = mapping[1].sheets[1].objects
          /\ WrittenSheet.name = mapping[1].sheets[1].name
          /\ mapping' = <<DictGet(files', lastCall'.output_path[1])>>]_vars

\* C28's case: save_yaml wrote to another path than the mapping was generated
\* for, over an ontology with two classes: the mapping was regenerated, its
\* source path changed and its class and columns did not
C28_Witness ==
    /\ lastCall.op = "save_yaml"
    /\ lastCall.outcome = "ok"
    /\ Len(ontology.classes) = 2
    /\ output_path.path = lastCall.output_path
    /\ FoundByLabel(mapping[1])
    /\ mapping[1].sheets[1].source # PathStr(spreadsheet.file_path)
    /\ mapping[1].sheets[1].columns # <<>>
    /\ mapping[1].sheets[1].row_resource.class = format_uri(ontology.classes[2].uri)
    /\ DictGet(files, lastCall.output_path[1]) = mapping[1]

----------------------------------------------------------------------------
(* A further claim about SemanticSimilarityMatcher, checked under SemSpec *)

\* the property is given the domain boost: the matcher has a reasoner, the
\* context holds matched properties, and the domain the matcher cached for
\* the property is the cached domain of one of them (lines 217-219)
GetsDomainBoost(prop) ==
    /\ sem[1].reasoner # <<>>
    /\ TheCall.context # <<>>
    /\ \E i \in 1..Len(TheCall.context[1].matched_properties) :
          LET d == DictGetOr(sem[1].prop_domain,
                             TheCall.context[1].matched_properties[i].value, <<>>)
          IN  d # <<>> /\ d = DictGetOr(sem[1].prop_domain, prop.uri, <<>>)

\* the score after the domain boost alone, and after both boosts
DomainBoosted(prop) == Saturate(BaseOf(prop) + sem[1].domain_boost)

FullyBoosted(prop) == Saturate(DomainBoosted(prop) + sem[1].cooccurrence_boost)

\* C26: the co-occurrence boost is neither applied nor withheld independently
\* of the domain boost: a property that is given the domain boost ends at
\* min(1.0, min(1.0, base + domain_boost) + cooccurrence_boost), never at the
\* domain boost alone, and every other property keeps its base score.
C26_BoostsGoTogether ==
    Called =>
        \A i \in 1..Len(TheCall.properties) :
            LET prop == TheCall.properties[i] IN
            /\ GetsDomainBoost(prop) =>
                  /\ FinalOf(prop) = FullyBoosted(prop)
                  /\ DomainBoosted(prop) < ONE => FinalOf(prop) > DomainBoosted(prop)
            /\ ~GetsDomainBoost(prop) => FinalOf(prop) = BaseOf(prop)
            /\ FinalOf(prop) \in {BaseOf(prop), FullyBoosted(prop)}

\* C26's case: in one call a property below 1.0 is given both boosts in full
\* and a property of another domain keeps its base score
C26_Witness ==
    /\ Called
    /\ \E i, j \in 1..Len(TheCall.properties) :
          /\ GetsDomainBoost(TheCall.properties[i])
          /\ FinalOf(TheCall.properties[i])
                 = BaseOf(TheCall.properties[i]) + sem[1].domain_boost
                       + sem[1].cooccurrence_boost
          /\ FinalOf(TheCall.properties[i]) < ONE
          /\ ~GetsDomainBoost(TheCall.properties[j])
          /\ BaseOf(TheCall.properties[j]) > 0
          /\ FinalOf(TheCall.properties[j]) = BaseOf(TheCall.properties[j])

----------------------------------------------------------------------------
(* A further claim about _match_column_to_property, checked under MatchSpec *)

\* a label or the local name of prop is exactly the column's normalized name
ExactlyNamed(col, prop) ==
    \/ prop.pref_label # <<>> /\ NormalForm(prop.pref_label) = NormalForm(col)
    \/ prop.label # <<>> /\ NormalForm(prop.label) = NormalForm(col)
    \/ \E i \in 1..Len(prop.alt_labels) :
          NormalForm(prop.alt_labels[i]) = NormalForm(col)
    \/ \E i \in 1..Len(prop.hidden_labels) :
          NormalForm(prop.hidden_labels[i]) = NormalForm(col)
    \/ SelectSeq(Lower(LocalName(prop.uri)), LAMBDA c : c # "_") = NormalForm(col)

\* prop has a prefLabel, an rdfs label or an altLabel
Labelled(prop) ==
    prop.pref_label # <<>> \/ prop.label # <<>> \/ prop.alt_labels # <<>>

\* C27: a column whose normalized name is empty is never left unmapped when
\* the property list is not empty: if no exact tier matches, it is a partial
\* match to the first property of the list that has a prefLabel, rdfs label or
\* altLabel, and without such a property a fuzzy match to the first property.
C27_EmptyNameAlwaysMatches ==
    (mPc = "matched" /\ NormalForm(mCol) = <<>> /\ mProps # <<>>) =>
        /\ mResult # <<>>
        /\ (\A i \in 1..Len(mProps) : ~ExactlyNamed(mCol, mProps[i])) =>
              IF \E i \in 1..Len(mProps) : Labelled(mProps[i])
              THEN /\ mResult[1].match_type = PARTIAL
                   /\ \E i \in 1..Len(mProps) :
                         /\ mResult[1].prop = mProps[i]
                         /\ Labelled(mProps[i])
                         /\ \A j \in 1..(i - 1) : ~Labelled(mProps[j])
              ELSE /\ mResult[1].match_type = FUZZY
                   /\ mResult[1].prop = mProps[1]
        /\ (\E i \in 1..Len(mProps) : ExactlyNamed(mCol, mProps[i])) =>
              mResult[1].match_type \notin {PARTIAL, FUZZY}

\* C27's case: the column "_" facing a first property with a hidden label
\* only and a second one with a label is a partial match to the second
C27_Witness ==
    /\ mPc = "matched"
    /\ mCol = sUnderscore
    /\ Len(mProps) = 2
    /\ ~Labelled(mProps[1]) /\ mProps[1].hidden_labels # <<>>
    /\ Labelled(mProps[2])
    /\ mResult # <<>>
    /\ mResult[1].match_type = PARTIAL
    /\ mResult[1].prop = mProps[2]

----------------------------------------------------------------------------
(* Claims about the conversion router and its task, checked under BackendSpec *)

\* the step answers a request to convert_to_rdf
ConvertStep == requests' = requests + 1 /\ response'[1].endpoint = "convert"

\* the step answers a request to get_job_status
JobStep == requests' = requests + 1 /\ response'[1].endpoint = "job"

\* the step queues exactly one task, for the project and under the id of the answer
QueuedOne ==
    /\ Len(celery_queue') = Len(celery_queue) + 1
    /\ SubSeq(celery_queue', 1, Len(celery_queue)) = celery_queue
    /\ celery_queue'[Len(celery_queue')].task_id = response'[1].task_id
    /\ celery_queue'[Len(celery_queue')].project_id = response'[1].project_id
    /\ ~DictHas(celery_results, response'[1].task_id)
    /\ \A i \in 1..Len(celery_queue) : celery_queue[i].task_id # response'[1].task_id

\* the step runs exactly one conversion, inside the request, for its project
ConvertedOnce ==
    /\ Len(conversions') = Len(conversions) + 1
    /\ SubSeq(conversions', 1, Len(conversions)) = conversions
    /\ conversions'[Len(conversions')].by = "request"
    /\ conversions'[Len(conversions')].project_id = response'[1].project_id

\* C29: a convert_to_rdf request for a project without mapping_config.yaml is
\* answered with HTTP 400 and neither queues a task nor runs a conversion; with
\* the mapping file, a use_background request queues one task and answers
\* "queued" with its task id without converting, any other request converts
\* once in the request and answers "success"; a failure of the broker or of the
\* conversion is answered with HTTP 500, and then nothing is queued.
C29_ConversionPrecondition ==
    [][ConvertStep =>
        LET r == response'[1]
        IN /\ celery_results' = celery_results
           /\ r.project_id \notin mapping_files =>
                  r.code = 400 /\ celery_queue' = celery_queue /\ conversions' = conversions
           /\ r.project_id \in mapping_files =>
                  /\ r.code \in {200, 500}
                  /\ r.use_background =>
                         /\ conversions' = conversions
                         /\ \/ r.code = 200 /\ r.status = "queued" /\ QueuedOne
                            \/ r.code = 500 /\ celery_queue' = celery_queue
                  /\ ~r.use_background =>
                         /\ celery_queue' = celery_queue
                         /\ ConvertedOnce
                         /\ IF conversions'[Len(conversions')].outcome = "ok"
                            THEN r.code = 200 /\ r.status = "success" /\ r.result # <<>>
                            ELSE r.code = 500
       ]_vars

\* a background request was just queued after a synchronous conversion, while
\* another project has no mapping file
C29_Witness ==
    /\ response # <<>>
    /\ response[1].endpoint = "convert"
    /\ response[1].status = "queued"
    /\ celery_queue # <<>>
    /\ celery_queue[Len(celery_queue)].task_id = response[1].task_id
    /\ \E i \in 1..Len(conversions) :
           conversions[i].by = "request" /\ conversions[i].outcome = "ok"
    /\ mapping_files # Projects

\* the log holds a run of the task by the worker with one of the outcomes
RanWith(log, task_id, outcomes) ==
    \E i \in 1..Len(log) :
        /\ log[i].by = "worker"
        /\ log[i].task_id = task_id
        /\ log[i].outcome \in outcomes

\* the conversion of the task failed
ConversionFailed(task_id) == RanWith(conversions, task_id, {"Exception"})

\* the conversion of the task succeeded
ConversionSucceeded(task_id) == RanWith(conversions, task_id, {"ok"})

\* C30: convert_to_rdf_task never propagates an exception: every task the
\* worker ran is stored as SUCCESS, with result status "error" when its
\* conversion failed and "success" when it succeeded; so an answered
\* get_job_status for a job whose conversion failed reports SUCCESS with the
\* error inside the result, and no answer comes from the failed branch.
C30_TaskNeverFails ==
    [][/\ \A i \in 1..Len(celery_results') :
              LET t == celery_results'[i]
              IN /\ t.value.state = "SUCCESS"
                 /\ RanWith(conversions', t.key, {"Exception"}) =>
                        t.value.result.status = "error" /\ t.value.result.error # <<>>
                 /\ RanWith(conversions', t.key, {"ok"}) =>
                        t.value.result.status = "success"
                 /\ RanWith(conversions', t.key, {"ok", "Exception"})
        /\ (JobStep /\ response'[1].code = 200) =>
              LET r == response'[1]
              IN /\ r.status # "FAILURE"
                 /\ r.error = <<>>
                 /\ ConversionFailed(r.task_id) =>
                        /\ r.status = "SUCCESS"
                        /\ r.result # <<>>
                        /\ r.result[1].status = "error"
                        /\ r.result[1].error # <<>>
                 /\ ConversionSucceeded(r.task_id) =>
                        /\ r.status = "SUCCESS"
                        /\ r.result # <<>>
                        /\ r.result[1].status = "success"
       ]_vars

\* the status of a job whose conversion failed was just asked for and answered
C30_Witness ==
    /\ response # <<>>
    /\ response[1].endpoint = "job"
    /\ response[1].code = 200
    /\ ConversionFailed(response[1].task_id)
    /\ response[1].status = "SUCCESS"
    /\ response[1].result # <<>>
    /\ response[1].result[1].status = "error"

====
